---- MODULE Spec2Model ----
(***************************************************************************)
(* Neko-Oracle-RWA: scheduling, retry and streaming-reconnection core.     *)
(*                                                                         *)
(*   SchedulerService    apps/ingestor/src/services/scheduler.service.ts   *)
(*   OracleScheduler     scheduler.ts of the oracle package (part_002)     *)
(*   PriceFetcher.retry / SorobanPublisher.retry   fetcher.ts, part_003    *)
(*   DataReceptionService   data-reception.service.ts (part_018)           *)
(*                                                                         *)
(* The Node.js runtime is part of the model where the code relies on it:   *)
(* live timers (setInterval / cron.schedule / setTimeout), ticks that are  *)
(* due but whose callback has not run yet, promises in flight.             *)
(***************************************************************************)
EXTENDS Integers, Sequences, FiniteSets, Bags, TLC

VARIABLES
    lastOp,             \* label of the last handler that ran (history)
    \* ---- SchedulerService ------------------------------------------------
    isRunning,          \* private isRunning
    intervalId,         \* private intervalId (NoTimer = null)
    svcTimers,          \* runtime: live setInterval handles
    svcDue,             \* runtime: handles whose tick is due, callback not yet run
    svcInFlight,        \* executeFetch() calls awaiting fetchRawPrices()
    \* ---- OracleScheduler -------------------------------------------------
    cronExpression,     \* private cronExpression (<<>> = null)
    intervalSeconds,    \* private intervalSeconds (<<>> = null)
    cronJob,            \* private cronJob (NoTimer = null)
    oIntervalId,        \* private intervalId (NoTimer = null)
    oTimers,            \* runtime: live timers, [id, kind]
    oDue,               \* runtime: timers whose tick is due
    oCycles,            \* bag of the executeUpdate() calls in flight, [cause, phase]
    unhandled,          \* a promise rejected with no handler attached
    oProcess,           \* "alive" | "crashed"
    \* ---- retry<T>(fn, retries) of PriceFetcher and SorobanPublisher -------
    rPc,                \* "idle" | "calling" | "sleeping" | "returned" | "thrown"
    rRetries,           \* the `retries` argument of the current frame
    rCalls,             \* how many times fn() has been invoked by this call
    rLog,               \* outcome of every finished fn() of this call, in order
    rResult,            \* what retry() returned or threw (<<>> = pending)
    \* ---- DataReceptionService -------------------------------------------
    wsUrl,              \* configService.get('INGESTOR_WS_URL') (<<>> = undefined)
    wsInited,           \* onModuleInit has run
    isDestroyed,        \* private isDestroyed
    reconnectAttempts,  \* private reconnectAttempts
    ws,                 \* private ws: index into sockets (NoSocket = undefined)
    sockets,            \* every WebSocket created so far, by state
    reconnTimers,       \* runtime: delays (ms) of the pending setTimeout calls
    wsMsgs,             \* every message received so far, [socket, data, done]
    priceReceived,      \* eventEmitter: 'price.received' events, [msg, dto]
    wsErrorLog,         \* logger.error calls of the message handler, [msg, text]
    \* ---- AggregationService, DebugService, MetricsService ------------------
    clock,              \* runtime: what Date.now() returns
    heap,               \* runtime: the objects allocated so far (results, arrays)
    lastAggregated,     \* DebugService.lastAggregated: Map symbol -> object
    lastNormalized,     \* DebugService.lastNormalized: Map symbol -> object
    updatedAt,          \* DebugService.updatedAt
    aggregationCount,   \* MetricsService.aggregationCount (all labels)
    aggregationErrors,  \* MetricsService.aggregationErrors (all labels)
    aggregators,        \* AggregationService.aggregators: Map method -> strategy
    aggCall,            \* arguments of the last aggregate call (<<>> = none yet)
    aggOutcome,         \* what that call returned or threw (<<>> = not run)
    lastOk,             \* per symbol, the last successful outcome (history)
    multiCall,          \* arguments of the last aggregateMultiple call
    multiOutcome,       \* what it returned or threw (<<>> = not run)
    snapshot,           \* the last LastPricesDto returned by getLastPrices
    snapshotSeen,       \* what a reader saw in it when it was returned (history)
    \* NormalizationService
    normalizers,        \* the Map name -> normalizer, in insertion order
    normCall,           \* the raw record of the last normalize call (<<>> = none)
    normOutcome,        \* what that call returned or threw (<<>> = not run)
    batchCall,          \* the last batch call: operation and raw records
    batchOutcome,       \* what that call returned or threw (<<>> = none yet)
    \* one method called on its own, as the unit tests of the repository do
    unitCall,           \* the method and its arguments (<<>> = none yet)
    unitOutcome,        \* what it returned or threw
    \* OracleScheduler.executeUpdate with its data
    updates,            \* every executeUpdate() call so far: step, locals, calls
    \* PriceFetcher.fetchPrice
    fpStep,             \* "idle" | "alphavantage" | "finnhub" | "returned" | "thrown"
    fpLog,              \* provider calls of the finished retries, [provider, ok, val]
    fpResult,           \* what fetchPrice returned or threw (<<>> = pending)
    \* PriceFetcherService
    storedRawPrices,    \* this.rawPrices
    fetches,            \* the calls of fetchRawPrices, in the order they started
    seenRawPrices       \* what the last getRawPrices returned

svcVars == <<isRunning, intervalId, svcTimers, svcDue, svcInFlight>>
oVars == <<cronExpression, intervalSeconds, cronJob, oIntervalId, oTimers,
           oDue, oCycles, unhandled, oProcess>>
rVars == <<rPc, rRetries, rCalls, rLog, rResult>>
msgVars == <<wsMsgs, priceReceived, wsErrorLog>>
wsVars == <<wsUrl, wsInited, isDestroyed, reconnectAttempts, ws, sockets,
            reconnTimers, msgVars>>
debugVars == <<heap, lastAggregated, lastNormalized, updatedAt>>
aggVars == <<clock, debugVars, aggregationCount, aggregationErrors,
             aggregators, aggCall, aggOutcome, lastOk, multiCall,
             multiOutcome, snapshot, snapshotSeen>>
normVars == <<normalizers, normCall, normOutcome, batchCall, batchOutcome>>
unitVars == <<unitCall, unitOutcome>>
uVars == <<updates>>
fpVars == <<fpStep, fpLog, fpResult>>
pfVars == <<storedRawPrices, fetches, seenRawPrices>>
vars == <<lastOp, svcVars, oVars, rVars, wsVars, aggVars, normVars, unitVars,
          uVars, fpVars, pfVars>>

\* what the handlers of one component leave alone
svcOthers == <<oVars, rVars, wsVars, aggVars, normVars, unitVars, uVars,
               fpVars, pfVars>>
oOthers == <<svcVars, rVars, wsVars, aggVars, normVars, unitVars, uVars,
             fpVars, pfVars>>
rOthers == <<svcVars, oVars, wsVars, aggVars, normVars, unitVars, uVars,
             fpVars, pfVars>>
wsOthers == <<svcVars, oVars, rVars, aggVars, normVars, unitVars, uVars,
              fpVars, pfVars>>
aggOthers == <<svcVars, oVars, rVars, wsVars, normVars, unitVars, uVars,
               fpVars, pfVars>>
normOthers == <<svcVars, oVars, rVars, wsVars, aggVars, unitVars, uVars,
                fpVars, pfVars>>
unitOthers == <<svcVars, oVars, rVars, wsVars, aggVars, normVars, uVars,
                fpVars, pfVars>>
uOthers == <<svcVars, oVars, rVars, wsVars, aggVars, normVars, unitVars,
             fpVars, pfVars>>
fpOthers == <<svcVars, oVars, rVars, wsVars, aggVars, normVars, unitVars,
              uVars, pfVars>>
pfOthers == <<svcVars, oVars, rVars, wsVars, aggVars, normVars, unitVars,
              uVars, fpVars>>

\* null for a timer field; runtime handles are 1, 2, ...
NoTimer == 0

\* at most this many cycles of one scheduler are modelled in flight
MaxInFlight == 2

\* the handle the runtime returns for a new timer
FreshHandle(live) == CHOOSE h \in 1..(Cardinality(live) + 1) : h \notin live

-----------------------------------------------------------------------------
(* SchedulerService *)

\* executeFetch(): runs synchronously up to `await fetchRawPrices()`
executeFetch == svcInFlight' = svcInFlight + 1

startScheduler_NoGuard ==
    /\ svcInFlight < MaxInFlight
    /\ executeFetch
    /\ LET h == FreshHandle(svcTimers)
       IN  /\ intervalId' = h
           /\ svcTimers' = svcTimers \cup {h}
    /\ isRunning' = TRUE
    /\ UNCHANGED svcDue
    /\ lastOp' = "startScheduler"
    /\ UNCHANGED svcOthers

startScheduler_NoImmediate ==
    /\ IF isRunning
         THEN UNCHANGED svcVars
         ELSE /\ LET h == FreshHandle(svcTimers)
                 IN  /\ intervalId' = h
                     /\ svcTimers' = svcTimers \cup {h}
              /\ isRunning' = TRUE
              /\ UNCHANGED <<svcDue, svcInFlight>>
    /\ lastOp' = "startScheduler"
    /\ UNCHANGED svcOthers

startScheduler ==
    /\ IF isRunning
         THEN UNCHANGED svcVars                      \* warn, return
         ELSE /\ svcInFlight < MaxInFlight
              /\ executeFetch                        \* immediately
              /\ LET h == FreshHandle(svcTimers)     \* setInterval
                 IN  /\ intervalId' = h
                     /\ svcTimers' = svcTimers \cup {h}
              /\ isRunning' = TRUE
              /\ UNCHANGED svcDue
    /\ lastOp' = "startScheduler"
    /\ UNCHANGED svcOthers

stopScheduler_NoClear ==
    /\ IF intervalId # NoTimer
         THEN /\ intervalId' = NoTimer
              /\ isRunning' = FALSE
              /\ UNCHANGED <<svcTimers, svcDue, svcInFlight>>
         ELSE UNCHANGED svcVars
    /\ lastOp' = "stopScheduler"
    /\ UNCHANGED svcOthers

stopScheduler_KeepsFlag ==
    /\ IF intervalId # NoTimer
         THEN /\ svcTimers' = svcTimers \ {intervalId}
              /\ svcDue' = svcDue \ {intervalId}
              /\ intervalId' = NoTimer
              /\ UNCHANGED <<isRunning, svcInFlight>>
         ELSE UNCHANGED svcVars
    /\ lastOp' = "stopScheduler"
    /\ UNCHANGED svcOthers

stopScheduler ==
    /\ IF intervalId # NoTimer
         THEN /\ svcTimers' = svcTimers \ {intervalId}   \* clearInterval:
              /\ svcDue' = svcDue \ {intervalId}         \* a due tick is dropped
              /\ intervalId' = NoTimer
              /\ isRunning' = FALSE
              /\ UNCHANGED svcInFlight
         ELSE UNCHANGED svcVars
    /\ lastOp' = "stopScheduler"
    /\ UNCHANGED svcOthers

isSchedulerRunning == isRunning

\* runtime: the interval of a live timer elapses
svcTimerElapses ==
    /\ \E h \in svcTimers \ svcDue : svcDue' = svcDue \cup {h}
    /\ UNCHANGED <<isRunning, intervalId, svcTimers, svcInFlight>>
    /\ lastOp' = "svcTimerElapses"
    /\ UNCHANGED svcOthers

\* the setInterval callback: () => { this.executeFetch(); }
svcTick ==
    /\ \E h \in svcDue : svcDue' = svcDue \ {h}
    /\ svcInFlight < MaxInFlight
    /\ executeFetch
    /\ UNCHANGED <<isRunning, intervalId, svcTimers>>
    /\ lastOp' = "svcTick"
    /\ UNCHANGED svcOthers

\* fetchRawPrices() resolves: the cycle logs success and ends
svcFetchResolves ==
    /\ svcInFlight > 0
    /\ svcInFlight' = svcInFlight - 1
    /\ UNCHANGED <<isRunning, intervalId, svcTimers, svcDue>>
    /\ lastOp' = "svcFetchResolves"
    /\ UNCHANGED svcOthers

\* fetchRawPrices() rejects: the catch block logs the error, the cycle ends
svcFetchRejects ==
    /\ svcInFlight > 0
    /\ svcInFlight' = svcInFlight - 1
    /\ UNCHANGED <<isRunning, intervalId, svcTimers, svcDue>>
    /\ lastOp' = "svcFetchRejects"
    /\ UNCHANGED svcOthers

NextSvc ==
    \/ startScheduler
    \/ stopScheduler
    \/ svcTimerElapses
    \/ svcTick
    \/ svcFetchResolves
    \/ svcFetchRejects

InitSvc ==
    /\ isRunning = FALSE
    /\ intervalId = NoTimer
    /\ svcTimers = {}
    /\ svcDue = {}
    /\ svcInFlight = 0

-----------------------------------------------------------------------------
(* OracleScheduler *)

\* constructor arguments: undefined, 0, a negative and a positive interval;
\* undefined, the empty string and a cron expression
IntervalInputs == {<<>>, <<0>>, <<-5>>, <<30>>}
CronInputs == {<<>>, <<"">>, <<"*/5 * * * *">>}

\* `config.intervalSeconds || null`, `config.cronExpression || null`
NumOrNull(x) == IF x = <<>> \/ x[1] = 0 THEN <<>> ELSE x
StrOrNull(x) == IF x = <<>> \/ x[1] = "" THEN <<>> ELSE x

\* the sequence s without its i-th element
RemoveAt(s, i) == SubSeq(s, 1, i - 1) \o SubSeq(s, i + 1, Len(s))

\* executeUpdate(): runs synchronously up to `await fetchPrice()`
executeUpdate(cause) ==
    oCycles' = oCycles (+) SetToBag({[cause |-> cause, phase |-> "fetch"]})

\* `if (...interval...) {...} if (this.cronExpression) {...}`: both modes
oStart_BothModes ==
    /\ oProcess = "alive"
    /\ IF cronJob # NoTimer \/ oIntervalId # NoTimer
         THEN UNCHANGED <<cronJob, oIntervalId, oTimers, oCycles>>
         ELSE LET useInt == intervalSeconds # <<>> /\ intervalSeconds[1] > 0
                  useCron == cronExpression # <<>>
                  ti == [id |-> FreshHandle({t.id : t \in oTimers}),
                         kind |-> "interval"]
                  tc == [id |-> ti.id + 1, kind |-> "cron"]
              IN  /\ oIntervalId' = IF useInt THEN ti.id ELSE NoTimer
                  /\ cronJob' = IF useCron THEN tc.id ELSE NoTimer
                  /\ oTimers' = oTimers \cup (IF useInt THEN {ti} ELSE {})
                                        \cup (IF useCron THEN {tc} ELSE {})
                  /\ IF useInt \/ useCron
                       THEN /\ BagCardinality(oCycles) < MaxInFlight
                            /\ executeUpdate("start")
                       ELSE UNCHANGED oCycles
    /\ UNCHANGED <<cronExpression, intervalSeconds, oDue, unhandled, oProcess>>
    /\ lastOp' = "oStart"
    /\ UNCHANGED oOthers

oStart ==
    /\ oProcess = "alive"
    /\ IF cronJob # NoTimer \/ oIntervalId # NoTimer
         THEN UNCHANGED <<cronJob, oIntervalId, oTimers, oCycles>>  \* warn
         ELSE IF intervalSeconds # <<>> /\ intervalSeconds[1] > 0
         THEN LET t == [id |-> FreshHandle({x.id : x \in oTimers}),
                        kind |-> "interval"]
              IN  /\ BagCardinality(oCycles) < MaxInFlight
                  /\ oIntervalId' = t.id                 \* setInterval
                  /\ oTimers' = oTimers \cup {t}
                  /\ executeUpdate("start")              \* .catch(...)
                  /\ UNCHANGED cronJob
         ELSE IF cronExpression # <<>>
         THEN LET t == [id |-> FreshHandle({x.id : x \in oTimers}),
                        kind |-> "cron"]
              IN  /\ BagCardinality(oCycles) < MaxInFlight
                  /\ cronJob' = t.id                     \* cron.schedule
                  /\ oTimers' = oTimers \cup {t}
                  /\ executeUpdate("start")              \* .catch(...)
                  /\ UNCHANGED oIntervalId
         ELSE UNCHANGED <<cronJob, oIntervalId, oTimers, oCycles>>  \* error
    /\ UNCHANGED <<cronExpression, intervalSeconds, oDue, unhandled, oProcess>>
    /\ lastOp' = "oStart"
    /\ UNCHANGED oOthers

oStop ==
    /\ oProcess = "alive"
    /\ LET gone == {t \in oTimers : \/ cronJob # NoTimer /\ t.id = cronJob
                                    \/ oIntervalId # NoTimer /\ t.id = oIntervalId}
       IN  /\ oTimers' = oTimers \ gone      \* cronJob.stop(), clearInterval
           /\ oDue' = oDue \ gone
    /\ cronJob' = NoTimer
    /\ oIntervalId' = NoTimer
    /\ UNCHANGED <<cronExpression, intervalSeconds, oCycles, unhandled, oProcess>>
    /\ lastOp' = "oStop"
    /\ UNCHANGED oOthers

\* runtime: the interval elapses / the cron expression matches
oTimerElapses ==
    /\ oProcess = "alive"
    /\ \E t \in oTimers \ oDue : oDue' = oDue \cup {t}
    /\ UNCHANGED <<cronExpression, intervalSeconds, cronJob, oIntervalId,
                   oTimers, oCycles, unhandled, oProcess>>
    /\ lastOp' = "oTimerElapses"
    /\ UNCHANGED oOthers

\* the timer callback: async () => { await this.executeUpdate(); }
oTick ==
    /\ oProcess = "alive"
    /\ \E t \in oDue : oDue' = oDue \ {t}
    /\ BagCardinality(oCycles) < MaxInFlight
    /\ executeUpdate("tick")
    /\ UNCHANGED <<cronExpression, intervalSeconds, cronJob, oIntervalId,
                   oTimers, unhandled, oProcess>>
    /\ lastOp' = "oTick"
    /\ UNCHANGED oOthers

\* one await of cycle i resolves and the cycle moves to its next step
oAdvance(c, from, to) ==
    /\ oProcess = "alive"
    /\ c.phase = from
    /\ oCycles' = (oCycles (-) SetToBag({c}))
                     (+) SetToBag({[c EXCEPT !.phase = to]})
    /\ UNCHANGED <<cronExpression, intervalSeconds, cronJob, oIntervalId,
                   oTimers, oDue, unhandled, oProcess>>
    /\ UNCHANGED oOthers

oFetchResolves ==
    /\ \E c \in BagToSet(oCycles) : oAdvance(c, "fetch", "commit")
    /\ lastOp' = "oFetchResolves"

oCommitResolves ==
    /\ \E c \in BagToSet(oCycles) : oAdvance(c, "commit", "publish")
    /\ lastOp' = "oCommitResolves"

\* publishToOracle resolves with success = true: executeUpdate returns
oPublishSucceeds ==
    /\ oProcess = "alive"
    /\ \E c \in BagToSet(oCycles) :
          /\ c.phase = "publish"
          /\ oCycles' = oCycles (-) SetToBag({c})
    /\ UNCHANGED <<cronExpression, intervalSeconds, cronJob, oIntervalId,
                   oTimers, oDue, unhandled, oProcess>>
    /\ lastOp' = "oPublishSucceeds"
    /\ UNCHANGED oOthers

\* the catch block of executeUpdate logs and rethrows.  The immediate cycle
\* has a .catch handler; the timer callback awaits with no handler, so its
\* promise rejects unhandled, and the runtime then either goes on (warn
\* mode) or terminates the process (the default since Node 15).
oFail(c, phase) ==
    /\ oProcess = "alive"
    /\ c.phase = phase
    /\ oCycles' = oCycles (-) SetToBag({c})
    /\ IF c.cause = "start"
         THEN UNCHANGED <<unhandled, oProcess>>
         ELSE /\ unhandled' = TRUE
              /\ oProcess' \in {"alive", "crashed"}
    /\ UNCHANGED <<cronExpression, intervalSeconds, cronJob, oIntervalId,
                   oTimers, oDue>>
    /\ UNCHANGED oOthers

oFetchRejects ==
    /\ \E c \in BagToSet(oCycles) : oFail(c, "fetch")
    /\ lastOp' = "oFetchRejects"

oCommitRejects ==
    /\ \E c \in BagToSet(oCycles) : oFail(c, "commit")
    /\ lastOp' = "oCommitRejects"

\* publishToOracle rejects, or resolves with success = false
oPublishFails ==
    /\ \E c \in BagToSet(oCycles) : oFail(c, "publish")
    /\ lastOp' = "oPublishFails"

NextOracle ==
    \/ oStart
    \/ oStop
    \/ oTimerElapses
    \/ oTick
    \/ oFetchResolves
    \/ oCommitResolves
    \/ oPublishSucceeds
    \/ oFetchRejects
    \/ oCommitRejects
    \/ oPublishFails

InitOracle ==
    /\ \E ci \in IntervalInputs : intervalSeconds = NumOrNull(ci)
    /\ \E cc \in CronInputs : cronExpression = StrOrNull(cc)
    /\ cronJob = NoTimer
    /\ oIntervalId = NoTimer
    /\ oTimers = {}
    /\ oDue = {}
    /\ oCycles = EmptyBag
    /\ unhandled = FALSE
    /\ oProcess = "alive"

-----------------------------------------------------------------------------
(* retry<T>(fn, retries = this.maxRetries): PriceFetcher, SorobanPublisher *)

Wrappers == {"PriceFetcher", "SorobanPublisher"}

\* private maxRetries: number = 3 (both classes)
maxRetries == [w \in Wrappers |-> 3]

\* what the wrapped operation can resolve with / reject with
FnValues == {"v1", "v2"}
FnErrors == {"e1", "e2"}

\* a caller invokes retry(fn): the first frame calls fn() at once
retryBegins(w) ==
    /\ rPc[w] \in {"idle", "returned", "thrown"}
    /\ rPc' = [rPc EXCEPT ![w] = "calling"]
    /\ rRetries' = [rRetries EXCEPT ![w] = maxRetries[w]]
    /\ rCalls' = [rCalls EXCEPT ![w] = 1]
    /\ rLog' = [rLog EXCEPT ![w] = <<>>]
    /\ rResult' = [rResult EXCEPT ![w] = <<>>]

retryCall(w) ==
    /\ retryBegins(w)
    /\ lastOp' = "retryCall"
    /\ UNCHANGED rOthers

\* `return await fn()`: fn resolves and every frame returns its value
fnResolves(w, v) ==
    /\ rPc[w] = "calling"
    /\ rLog' = [rLog EXCEPT ![w] = Append(@, [ok |-> TRUE, val |-> v])]
    /\ rPc' = [rPc EXCEPT ![w] = "returned"]
    /\ rResult' = [rResult EXCEPT ![w] = <<v>>]
    /\ UNCHANGED <<rRetries, rCalls>>
    /\ lastOp' = "fnResolves"
    /\ UNCHANGED rOthers

\* `if (retries <= 1) throw error`: one attempt short
fnRejects_OffByOne(w, e) ==
    /\ rPc[w] = "calling"
    /\ rLog' = [rLog EXCEPT ![w] = Append(@, [ok |-> FALSE, val |-> e])]
    /\ IF rRetries[w] <= 1
         THEN /\ rPc' = [rPc EXCEPT ![w] = "thrown"]
              /\ rResult' = [rResult EXCEPT ![w] = <<e>>]
         ELSE /\ rPc' = [rPc EXCEPT ![w] = "sleeping"]
              /\ UNCHANGED rResult
    /\ UNCHANGED <<rRetries, rCalls>>
    /\ lastOp' = "fnRejects"
    /\ UNCHANGED rOthers

\* catch (error): rethrow when no retries are left, else warn and sleep
fnRejects(w, e) ==
    /\ rPc[w] = "calling"
    /\ rLog' = [rLog EXCEPT ![w] = Append(@, [ok |-> FALSE, val |-> e])]
    /\ IF rRetries[w] <= 0
         THEN /\ rPc' = [rPc EXCEPT ![w] = "thrown"]
              /\ rResult' = [rResult EXCEPT ![w] = <<e>>]
         ELSE /\ rPc' = [rPc EXCEPT ![w] = "sleeping"]   \* setTimeout(retryDelay)
              /\ UNCHANGED rResult
    /\ UNCHANGED <<rRetries, rCalls>>
    /\ lastOp' = "fnRejects"
    /\ UNCHANGED rOthers

\* the delay is over: `return this.retry(fn, retries - 1)` calls fn() again
retryAgain(w) ==
    /\ rPc[w] = "sleeping"
    /\ rRetries' = [rRetries EXCEPT ![w] = @ - 1]
    /\ rCalls' = [rCalls EXCEPT ![w] = @ + 1]
    /\ rPc' = [rPc EXCEPT ![w] = "calling"]
    /\ UNCHANGED <<rLog, rResult>>
    /\ lastOp' = "retryAgain"
    /\ UNCHANGED rOthers

NextRetry ==
    \/ \E w \in Wrappers : retryCall(w)
    \/ \E w \in Wrappers, v \in FnValues : fnResolves(w, v)
    \/ \E w \in Wrappers, e \in FnErrors : fnRejects(w, e)
    \/ \E w \in Wrappers : retryAgain(w)

InitRetry ==
    /\ rPc = [w \in Wrappers |-> "idle"]
    /\ rRetries = [w \in Wrappers |-> maxRetries[w]]
    /\ rCalls = [w \in Wrappers |-> 0]
    /\ rLog = [w \in Wrappers |-> <<>>]
    /\ rResult = [w \in Wrappers |-> <<>>]

-----------------------------------------------------------------------------
(* DataReceptionService: streaming connection with reconnection *)

\* `private ws: WebSocket` before the first connect
NoSocket == 0

\* private readonly maxReconnectAttempts = 5
maxReconnectAttempts == 5

\* at most this many WebSocket objects are created in one run of the model
MaxSockets == 6

WsUrlInputs == {<<>>, <<"ws://localhost:3000">>}

RECURSIVE Pow(_, _)
\* Math.pow(b, n) for a natural exponent
Pow(b, n) == IF n = 0 THEN 1 ELSE b * Pow(b, n - 1)

\* connectWebSocket(): new WebSocket(wsUrl) and its four handlers
connectWebSocket ==
    IF wsUrl = <<>>
      THEN UNCHANGED <<ws, sockets>>                  \* logs an error
      ELSE /\ Len(sockets) < MaxSockets
           /\ sockets' = Append(sockets, "connecting")
           /\ ws' = Len(sockets) + 1

\* `reconnectAttempts > maxReconnectAttempts`: one attempt too many
handleReconnection_OneMore ==
    IF isDestroyed \/ reconnectAttempts > maxReconnectAttempts
      THEN UNCHANGED <<reconnectAttempts, reconnTimers>>
      ELSE /\ reconnectAttempts' = reconnectAttempts + 1
           /\ reconnTimers' =
                Append(reconnTimers, Pow(2, reconnectAttempts + 1) * 1000)

handleReconnection ==
    IF isDestroyed \/ reconnectAttempts >= maxReconnectAttempts
      THEN UNCHANGED <<reconnectAttempts, reconnTimers>>   \* logs an error
      ELSE /\ reconnectAttempts' = reconnectAttempts + 1
           /\ reconnTimers' =                              \* setTimeout(.., delay)
                Append(reconnTimers, Pow(2, reconnectAttempts + 1) * 1000)

\* lifecycle: Nest calls onModuleInit once, before any onModuleDestroy
wsOnModuleInit ==
    /\ ~wsInited /\ ~isDestroyed
    /\ wsInited' = TRUE
    /\ connectWebSocket
    /\ UNCHANGED <<wsUrl, isDestroyed, reconnectAttempts, reconnTimers>>
    /\ lastOp' = "wsOnModuleInit"
    /\ UNCHANGED msgVars
    /\ UNCHANGED wsOthers

\* this.ws.close() starts the closing handshake of a socket that is not closed
wsOnModuleDestroy ==
    /\ isDestroyed' = TRUE
    /\ IF ws # NoSocket /\ sockets[ws] \in {"connecting", "open"}
         THEN sockets' = [sockets EXCEPT ![ws] = "closing"]
         ELSE UNCHANGED sockets
    /\ UNCHANGED <<wsUrl, wsInited, reconnectAttempts, ws, reconnTimers>>
    /\ lastOp' = "wsOnModuleDestroy"
    /\ UNCHANGED msgVars
    /\ UNCHANGED wsOthers

\* ws.on('open') without `this.reconnectAttempts = 0`
wsOpen_NoReset ==
    /\ \E k \in 1..Len(sockets) :
          /\ sockets[k] = "connecting"
          /\ sockets' = [sockets EXCEPT ![k] = "open"]
    /\ UNCHANGED <<wsUrl, wsInited, isDestroyed, reconnectAttempts, ws, reconnTimers>>
    /\ lastOp' = "wsOpen"
    /\ UNCHANGED msgVars
    /\ UNCHANGED wsOthers

\* ws.on('open')
wsOpen ==
    /\ \E k \in 1..Len(sockets) :
          /\ sockets[k] = "connecting"
          /\ sockets' = [sockets EXCEPT ![k] = "open"]
    /\ reconnectAttempts' = 0
    /\ UNCHANGED <<wsUrl, wsInited, isDestroyed, ws, reconnTimers>>
    /\ lastOp' = "wsOpen"
    /\ UNCHANGED msgVars
    /\ UNCHANGED wsOthers

\* an error handler that schedules a reconnection as well
wsError_Reconnects ==
    /\ \E k \in 1..Len(sockets) : sockets[k] \in {"connecting", "open", "closing"}
    /\ handleReconnection
    /\ UNCHANGED <<wsUrl, wsInited, isDestroyed, ws, sockets>>
    /\ lastOp' = "wsError"
    /\ UNCHANGED msgVars
    /\ UNCHANGED wsOthers

\* ws.on('error'): logged; the socket's close event follows separately
wsError ==
    /\ \E k \in 1..Len(sockets) : sockets[k] \in {"connecting", "open", "closing"}
    /\ UNCHANGED wsVars
    /\ lastOp' = "wsError"
    /\ UNCHANGED wsOthers

\* ws.on('close'): the connection failed, dropped, or finished closing
wsClose ==
    /\ \E k \in 1..Len(sockets) :
          /\ sockets[k] \in {"connecting", "open", "closing"}
          /\ sockets' = [sockets EXCEPT ![k] = "closed"]
    /\ handleReconnection
    /\ UNCHANGED <<wsUrl, wsInited, isDestroyed, ws>>
    /\ lastOp' = "wsClose"
    /\ UNCHANGED msgVars
    /\ UNCHANGED wsOthers

\* the setTimeout callback without its `if (!this.isDestroyed)`
wsTimerFires_NoCheck ==
    /\ \E i \in 1..Len(reconnTimers) : reconnTimers' = RemoveAt(reconnTimers, i)
    /\ connectWebSocket
    /\ UNCHANGED <<wsUrl, wsInited, isDestroyed, reconnectAttempts>>
    /\ lastOp' = "wsTimerFires"
    /\ UNCHANGED msgVars
    /\ UNCHANGED wsOthers

\* the setTimeout callback of handleReconnection
wsTimerFires ==
    /\ \E i \in 1..Len(reconnTimers) : reconnTimers' = RemoveAt(reconnTimers, i)
    /\ IF ~isDestroyed
         THEN connectWebSocket
         ELSE UNCHANGED <<ws, sockets>>
    /\ UNCHANGED <<wsUrl, wsInited, isDestroyed, reconnectAttempts>>
    /\ lastOp' = "wsTimerFires"
    /\ UNCHANGED msgVars
    /\ UNCHANGED wsOthers

\* ---- incoming messages ----------------------------------------------------

\* at most this many messages arrive in one run of the model
MaxMessages == 2

\* JavaScript values of the payload's properties
Str(x) == [t |-> "string", s |-> x, n |-> 0]
Num(x) == [t |-> "number", s |-> "", n |-> x]
Undefined == [t |-> "undefined", s |-> "", n |-> 0]

Payload(sym, pr, src, ts) ==
    [symbol |-> sym, price |-> pr, source |-> src, timestamp |-> ts]

ValidText == "{symbol:'ETH',price:2500,source:'binance',timestamp:'2026-01-27T13:00:00Z'}"
NegativePriceText == "{symbol:'ETH',price:-100}"
ZeroPriceText == "{symbol:'ETH',price:0,source:'binance',timestamp:'2026-01-27T13:00:00Z'}"
StringPriceText == "{symbol:'ETH',price:'2500',source:'binance',timestamp:'2026-01-27T13:00:00Z'}"
NumericSymbolText == "{symbol:7,price:2500,source:'binance',timestamp:'2026-01-27T13:00:00Z'}"
NoSourceText == "{symbol:'ETH',price:2500,timestamp:'2026-01-27T13:00:00Z'}"
BadTimestampText == "{symbol:'ETH',price:2500,source:'binance',timestamp:'yesterday'}"

\* the texts a message carries (data.toString())
MessageInputs ==
    {"invalid-json", ValidText, NegativePriceText, ZeroPriceText,
     StringPriceText, NumericSymbolText, NoSourceText, BadTimestampText}

\* JSON.parse(text): <<value>>, or <<>> when it throws SyntaxError
JSONparse(text) ==
    LET ts == Str("2026-01-27T13:00:00Z")
    IN CASE text = ValidText ->
              <<Payload(Str("ETH"), Num(2500), Str("binance"), ts)>>
         [] text = NegativePriceText ->
              <<Payload(Str("ETH"), Num(-100), Undefined, Undefined)>>
         [] text = ZeroPriceText ->
              <<Payload(Str("ETH"), Num(0), Str("binance"), ts)>>
         [] text = StringPriceText ->
              <<Payload(Str("ETH"), Str("2500"), Str("binance"), ts)>>
         [] text = NumericSymbolText ->
              <<Payload(Num(7), Num(2500), Str("binance"), ts)>>
         [] text = NoSourceText ->
              <<Payload(Str("ETH"), Num(2500), Undefined, ts)>>
         [] text = BadTimestampText ->
              <<Payload(Str("ETH"), Num(2500), Str("binance"), Str("yesterday"))>>
         [] OTHER -> <<>>

\* the decorators of PriceInputDto
IsString(v) == v.t = "string"
IsNumber(v) == v.t = "number"
IsPositive(v) == v.t = "number" /\ v.n > 0
IsISO8601(v) == v.t = "string" /\ v.s \in {"2026-01-27T13:00:00Z"}

\* validate(priceDto): the properties that have a failed constraint
validate(dto) ==
    {q \in {"symbol", "price", "source", "timestamp"} :
        CASE q = "symbol" -> ~IsString(dto.symbol)
          [] q = "price" -> ~(IsNumber(dto.price) /\ IsPositive(dto.price))
          [] q = "source" -> ~IsString(dto.source)
          [] q = "timestamp" -> ~IsISO8601(dto.timestamp)}

\* ws.on('message'): JSON.parse, then handleIncomingPrice up to `await validate`
wsMessage ==
    /\ Len(wsMsgs) < MaxMessages
    /\ \E k \in 1..Len(sockets), data \in MessageInputs :
          /\ sockets[k] \in {"open", "closing"}
          /\ LET m == Len(wsMsgs) + 1
             IN IF JSONparse(data) = <<>>
                  THEN /\ wsMsgs' = Append(wsMsgs,
                               [socket |-> k, data |-> data, done |-> TRUE])
                       /\ wsErrorLog' = Append(wsErrorLog,
                               [msg |-> m, text |-> "Error processing message"])
                  ELSE /\ wsMsgs' = Append(wsMsgs,
                               [socket |-> k, data |-> data, done |-> FALSE])
                       /\ UNCHANGED wsErrorLog
    /\ UNCHANGED priceReceived
    /\ UNCHANGED <<wsUrl, wsInited, isDestroyed, reconnectAttempts, ws, sockets,
                   reconnTimers>>
    /\ lastOp' = "wsMessage"
    /\ UNCHANGED wsOthers

\* handleIncomingPrice without the `return` of its `if (errors.length > 0)`
handleIncomingPrice_NoReturn(m) ==
    LET priceDto == JSONparse(wsMsgs[m].data)[1]
        errors == validate(priceDto)
    IN  /\ wsErrorLog' =
             IF errors # {}
               THEN Append(wsErrorLog, [msg |-> m, text |-> "Validation failed"])
               ELSE wsErrorLog
        /\ priceReceived' = Append(priceReceived, [msg |-> m, dto |-> priceDto])

\* handleIncomingPrice, after `await validate(priceDto)`
handleIncomingPrice(m) ==
    LET priceDto == JSONparse(wsMsgs[m].data)[1]       \* plainToInstance
        errors == validate(priceDto)
    IN  IF errors # {}
          THEN /\ wsErrorLog' =
                    Append(wsErrorLog, [msg |-> m, text |-> "Validation failed"])
               /\ UNCHANGED priceReceived
          ELSE /\ priceReceived' =
                    Append(priceReceived, [msg |-> m, dto |-> priceDto])
               /\ UNCHANGED wsErrorLog

\* the validation of one message settles and its handler finishes
wsValidated ==
    /\ \E m \in 1..Len(wsMsgs) :
          /\ ~wsMsgs[m].done
          /\ wsMsgs' = [wsMsgs EXCEPT ![m].done = TRUE]
          /\ handleIncomingPrice(m)
    /\ UNCHANGED <<wsUrl, wsInited, isDestroyed, reconnectAttempts, ws, sockets,
                   reconnTimers>>
    /\ lastOp' = "wsValidated"
    /\ UNCHANGED wsOthers

NextWs ==
    \/ wsOnModuleInit
    \/ wsOnModuleDestroy
    \/ wsOpen
    \/ wsError
    \/ wsClose
    \/ wsTimerFires

\* one connection from connect to close, and the messages it delivers
NextWsMsg ==
    \/ wsOnModuleInit
    \/ wsOnModuleDestroy
    \/ wsOpen
    \/ wsClose
    \/ wsMessage
    \/ wsValidated

InitWs ==
    /\ wsUrl \in WsUrlInputs
    /\ wsInited = FALSE
    /\ isDestroyed = FALSE
    /\ reconnectAttempts = 0
    /\ ws = NoSocket
    /\ sockets = <<>>
    /\ reconnTimers = <<>>
    /\ wsMsgs = <<>>
    /\ priceReceived = <<>>
    /\ wsErrorLog = <<>>

-----------------------------------------------------------------------------
(* AggregationService: consensus of the quotes of one symbol.

   Numbers.  Prices are whole numbers of the smallest price unit, weights are
   tenths (12 = 1.2), the trim fraction is a percentage (20 = 0.2), times are
   milliseconds.  A quotient the code leaves as a double is kept exact, as
   the pair [num, den]. *)

\* a price as the quote carries it: a finite number, or NaN
Fin(x) == [k |-> "finite", v |-> x]
NaN == [k |-> "NaN", v |-> 0]
isFinite(x) == x.k = "finite"

\* a NormalizedPrice as aggregate reads it (weight: <<>> = absent)
Quote(sym, pr, ts, src) ==
    [symbol |-> sym, price |-> pr, timestamp |-> ts, source |-> src,
     weight |-> <<>>]

\* AggregationOptions (<<>> = property absent)
Options(minS, win, meth, cw, trim) ==
    [minSources |-> minS, timeWindowMs |-> win, method |-> meth,
     customWeights |-> cw, trimPercentage |-> trim]

\* `x ?? dflt` for an optional value
OrDefault(x, dflt) == IF x = <<>> THEN dflt ELSE x[1]

\* symbol.trim() for the symbols of the model
Trim(sym) == IF sym \in {"", " "} THEN "" ELSE sym

\* validateInputs looking at the prices before it looks at the symbols
validateInputs_PricesFirst(symbol, prices, minSources) ==
    IF symbol = "" \/ Trim(symbol) = ""
      THEN "Symbol cannot be empty"
    ELSE IF Len(prices) = 0
      THEN "Prices array cannot be empty"
    ELSE IF minSources < 1
      THEN "Minimum sources must be at least 1"
    ELSE IF Len(prices) < minSources
      THEN "Insufficient sources"
    ELSE IF \E i \in 1..Len(prices) :
              ~isFinite(prices[i].price) \/ prices[i].price.v <= 0
      THEN "Found invalid price values"
    ELSE IF \E i \in 1..Len(prices) : prices[i].symbol # symbol
      THEN "All prices must be for symbol"
    ELSE ""

\* validateInputs: the message of the Error it throws, "" when it returns
validateInputs(symbol, prices, minSources) ==
    IF symbol = "" \/ Trim(symbol) = ""
      THEN "Symbol cannot be empty"
    ELSE IF Len(prices) = 0
      THEN "Prices array cannot be empty"
    ELSE IF minSources < 1
      THEN "Minimum sources must be at least 1"
    ELSE IF Len(prices) < minSources
      THEN "Insufficient sources"
    ELSE IF \E i \in 1..Len(prices) : prices[i].symbol # symbol
      THEN "All prices must be for symbol"
    ELSE IF \E i \in 1..Len(prices) :
              ~isFinite(prices[i].price) \/ prices[i].price.v <= 0
      THEN "Found invalid price values"
    ELSE ""

\* the filter with `>` for `>=`
InWindow_Exclusive(p, windowStart) == p.timestamp > windowStart

\* prices.filter(p => p.timestamp >= windowStart)
\* typeof p.timestamp === 'string': the records BaseNormalizer.normalize builds
\* (the ones that carry originalTimestamp) hold the ISO 8601 string
TimestampIsString(p) == "originalTimestamp" \in DOMAIN p

\* p.timestamp >= windowStart.  ToNumber of an ISO 8601 string is NaN, and
\* NaN >= x is false.
InWindow(p, windowStart) ==
    IF TimestampIsString(p) THEN FALSE
    ELSE p.timestamp >= windowStart
recentOf(prices, windowStart) ==
    SelectSeq(prices, LAMBDA p : InWindow(p, windowStart))

\* SOURCE_WEIGHTS of source-weights.config, in tenths
SOURCE_WEIGHTS ==
    [Bloomberg |-> 20, Reuters |-> 20, AlphaVantage |-> 15, YahooFinance |-> 12,
     Finnhub |-> 12, Polygon |-> 10, default |-> 10]

\* getSourceWeight(source)
getSourceWeight(source) ==
    IF source \in DOMAIN SOURCE_WEIGHTS
      THEN SOURCE_WEIGHTS[source]
      ELSE SOURCE_WEIGHTS["default"]

SourcesOf(prices) == {prices[i].source : i \in 1..Len(prices)}

\* prepareWeights: customWeights?.get(source) ?? getSourceWeight(source)
prepareWeights(prices, customWeights) ==
    [src \in SourcesOf(prices) |->
        IF customWeights # <<>> /\ src \in DOMAIN customWeights[1]
          THEN customWeights[1][src]
          ELSE getSourceWeight(src)]

\* a weight taken from the map of the sources before the quote's own
weightOf_SourceFirst(priceData, weights) ==
    IF priceData.source \in DOMAIN weights THEN weights[priceData.source]
    ELSE IF priceData.weight # <<>> THEN priceData.weight[1]
    ELSE 10

\* priceData.weight ?? weights?.get(priceData.source) ?? 1
weightOf(priceData, weights) ==
    IF priceData.weight # <<>> THEN priceData.weight[1]
    ELSE IF priceData.source \in DOMAIN weights THEN weights[priceData.source]
    ELSE 10

RECURSIVE SumSeq(_)
SumSeq(xs) == IF xs = <<>> THEN 0 ELSE Head(xs) + SumSeq(Tail(xs))

\* what a strategy returns or throws
Returns(x) == [error |-> "", value |-> <<x>>]
Throws(msg) == [error |-> msg, value |-> <<>>]

\* the loop of WeightedAverageAggregator.aggregate and of
\* TrimmedMeanAggregator.calculateWeightedAverage
calculateWeightedAverage(prices, weights) ==
    LET weightedSum ==
            SumSeq([i \in 1..Len(prices) |->
                       prices[i].price.v * weightOf(prices[i], weights)])
        totalWeight ==
            SumSeq([i \in 1..Len(prices) |-> weightOf(prices[i], weights)])
    IN  IF totalWeight = 0
          THEN Throws("Total weight cannot be zero")
          ELSE Returns([num |-> weightedSum, den |-> totalWeight])

WeightedAverageAggregator(prices, weights) ==
    IF Len(prices) = 0
      THEN Throws("Cannot aggregate empty price array")
      ELSE calculateWeightedAverage(prices, weights)

RECURSIVE InsertByPrice(_, _)
\* q goes after every element whose price is not greater (stable)
InsertByPrice(sorted, q) ==
    IF sorted = <<>> THEN <<q>>
    ELSE IF q.price.v < Head(sorted).price.v THEN <<q>> \o sorted
    ELSE <<Head(sorted)>> \o InsertByPrice(Tail(sorted), q)

\* no sort: the quotes in input order
SortByPrice_Input(prices) == prices

RECURSIVE SortByPrice(_)
\* [...prices].sort((a, b) => a.price - b.price)
SortByPrice(prices) ==
    IF prices = <<>> THEN <<>>
    ELSE InsertByPrice(SortByPrice(SubSeq(prices, 1, Len(prices) - 1)),
                       prices[Len(prices)])

\* a median that takes the middle of the list as given
MedianAggregator_Unsorted(prices, weights) ==
    IF Len(prices) = 0
      THEN Throws("Cannot aggregate empty price array")
      ELSE LET length == Len(prices)
               middle == length \div 2
           IN  IF length % 2 = 1
                 THEN Returns([num |-> prices[middle + 1].price.v, den |-> 1])
                 ELSE Returns([num |-> prices[middle].price.v
                                        + prices[middle + 1].price.v,
                               den |-> 2])

MedianAggregator(prices, weights) ==
    IF Len(prices) = 0
      THEN Throws("Cannot aggregate empty price array")
      ELSE LET sortedPrices == SortByPrice(prices)
               length == Len(sortedPrices)
               middle == length \div 2             \* 0-based index
           IN  IF length % 2 = 1
                 THEN Returns([num |-> sortedPrices[middle + 1].price.v,
                               den |-> 1])
                 ELSE Returns([num |-> sortedPrices[middle].price.v
                                        + sortedPrices[middle + 1].price.v,
                               den |-> 2])

\* a constructor that accepts one half
TrimPercentageOk_Half(trimPercentage) == ~(trimPercentage < 0 \/ trimPercentage > 50)

\* constructor of TrimmedMeanAggregator
TrimPercentageOk(trimPercentage) == ~(trimPercentage < 0 \/ trimPercentage >= 50)

\* a trimmed mean that drops the cheapest quotes only
TrimmedMeanAggregator_LowEnd(trimPercentage, prices, weights) ==
    IF Len(prices) = 0
      THEN Throws("Cannot aggregate empty price array")
    ELSE IF Len(prices) < 3
      THEN calculateWeightedAverage(prices, weights)
    ELSE LET sortedPrices == SortByPrice(prices)
             trimCount == (Len(sortedPrices) * trimPercentage) \div 100
             trimmedPrices ==
                 SubSeq(sortedPrices, trimCount + 1, Len(sortedPrices))
         IN  calculateWeightedAverage(trimmedPrices, weights)

TrimmedMeanAggregator(trimPercentage, prices, weights) ==
    IF Len(prices) = 0
      THEN Throws("Cannot aggregate empty price array")
    ELSE IF Len(prices) < 3
      THEN calculateWeightedAverage(prices, weights)
    ELSE LET sortedPrices == SortByPrice(prices)
             trimCount == (Len(sortedPrices) * trimPercentage) \div 100
             trimmedPrices ==
                 SubSeq(sortedPrices, trimCount + 1, Len(sortedPrices) - trimCount)
         IN  calculateWeightedAverage(trimmedPrices, weights)

RECURSIVE Isqrt(_)
\* floor of Math.sqrt(x)
Isqrt(x) ==
    IF x < 2 THEN x
    ELSE LET r == 2 * Isqrt(x \div 4)
         IN  IF (r + 1) * (r + 1) <= x THEN r + 1 ELSE r

MinOf(S) == CHOOSE x \in S : \A y \in S : x <= y
MaxOf(S) == CHOOSE x \in S : \A y \in S : x >= y
Clamp(lo, hi, x) == MaxOf({lo, MinOf({hi, x})})

\* calculateMetrics.  With n prices of sum S: mean = S / n,
\* variance = sum((n p - S)^2) / n^3, spread = (max - min) * n * 100 / S.
\* standardDeviation is floor(sqrt(variance) * 100), in hundredths.
calculateMetrics(prices) ==
    LET n == Len(prices)
        priceValues == [i \in 1..n |-> prices[i].price.v]
        S == SumSeq(priceValues)
        sq == SumSeq([i \in 1..n |-> (n * priceValues[i] - S) * (n * priceValues[i] - S)])
        minPrice == MinOf({priceValues[i] : i \in 1..n})
        maxPrice == MaxOf({priceValues[i] : i \in 1..n})
    IN  [standardDeviation |-> Isqrt((sq * 10000) \div (n * n * n)),
         spread |-> [num |-> (maxPrice - minPrice) * n * 100, den |-> S],
         variance |-> [num |-> sq, den |-> n * n * n]]

\* a confidence whose source score falls with the count
calculateConfidence_Penalty(metrics, sourceCount) ==
    LET sourceScore == MaxOf({0, 4000 - sourceCount * 300})
        spreadScore ==
            MaxOf({0, 3000 - (metrics.spread.num * 300) \div metrics.spread.den})
        stdDevScore == MaxOf({0, 3000 - (metrics.standardDeviation * 3) \div 10})
        totalScore == sourceScore + spreadScore + stdDevScore
    IN  Clamp(0, 10000, totalScore)

\* calculateConfidence, in hundredths of a point (0 .. 10000)
calculateConfidence(metrics, sourceCount) ==
    LET sourceScore == MinOf({4000, 1000 + sourceCount * 300})
        spreadScore ==
            MaxOf({0, 3000 - (metrics.spread.num * 300) \div metrics.spread.den})
        stdDevScore == MaxOf({0, 3000 - (metrics.standardDeviation * 3) \div 10})
        totalScore == sourceScore + spreadScore + stdDevScore
    IN  Clamp(0, 10000, totalScore)

\* Unique without the Set: every source of every quote, repeated
Unique_Keep(xs) == xs

RECURSIVE Unique(_)
\* [...new Set(xs)]: first occurrences, in order
Unique(xs) ==
    IF xs = <<>> THEN <<>>
    ELSE LET init == Unique(SubSeq(xs, 1, Len(xs) - 1))
             x == xs[Len(xs)]
         IN  IF \E i \in 1..Len(init) : init[i] = x THEN init ELSE Append(init, x)

\* Map.prototype.set on a Map modelled as a function
MapSet(m, key, value) ==
    [x \in DOMAIN m \cup {key} |-> IF x = key THEN value ELSE m[x]]

EmptyMap == <<>>

\* ---- DebugService -------------------------------------------------------

\* a strategy object: its class and, for the trimmed mean, its field
Strategy(class, trimPercentage) ==
    [class |-> class, trimPercentage |-> trimPercentage]

\* the Map the constructor of AggregationService fills
NewAggregators ==
    [method \in {"weighted-average", "median", "trimmed-mean"} |->
        CASE method = "weighted-average" -> Strategy("WeightedAverageAggregator", 0)
          [] method = "median" -> Strategy("MedianAggregator", 0)
          [] method = "trimmed-mean" -> Strategy("TrimmedMeanAggregator", 20)]

\* the mutable state aggregate works on
Store ==
    [heap |-> heap, lastAggregated |-> lastAggregated,
     lastNormalized |-> lastNormalized, updatedAt |-> updatedAt,
     aggregationCount |-> aggregationCount,
     aggregationErrors |-> aggregationErrors, aggregators |-> aggregators,
     lastOk |-> lastOk]

\* setLastAggregated(symbol, result): result is a reference to the object
setLastAggregated(st, symbol, result, now) ==
    [st EXCEPT !.lastAggregated = MapSet(@, symbol, result),
               !.updatedAt = now]

\* setLastNormalized refilling the array the Map already holds for the symbol
setLastNormalized_InPlace(st, symbol, prices, now) ==
    IF symbol \in DOMAIN st.lastNormalized
      THEN [st EXCEPT !.heap[st.lastNormalized[symbol]] = prices,
                      !.updatedAt = now]
      ELSE [st EXCEPT !.heap = Append(@, prices),
                      !.lastNormalized = MapSet(@, symbol, Len(st.heap) + 1),
                      !.updatedAt = now]

\* setLastNormalized(symbol, prices): stores a new array [...prices]
setLastNormalized(st, symbol, prices, now) ==
    [st EXCEPT !.heap = Append(@, prices),
               !.lastNormalized = MapSet(@, symbol, Len(st.heap) + 1),
               !.updatedAt = now]

\* ---- MetricsService -----------------------------------------------------

recordAggregation(st) == [st EXCEPT !.aggregationCount = @ + 1]
recordError(st) == [st EXCEPT !.aggregationErrors = @ + 1]

\* ---- AggregationService.aggregate ---------------------------------------

KnownMethods == {"weighted-average", "median", "trimmed-mean"}

\* the catch block of aggregate: recordError, then rethrow
Failed(st, msg) ==
    [st |-> recordError(st),
     out |-> [error |-> msg, result |-> <<>>, ref |-> 0, recentPrices |-> <<>>]]

\* this.aggregators.get(method), or a new TrimmedMeanAggregator for a trim
\* fraction other than 0.2 (<<>> = undefined)
aggregatorOf(registry, method, trimPercentage) ==
    IF method = "trimmed-mean" /\ trimPercentage # 20
      THEN <<Strategy("TrimmedMeanAggregator", trimPercentage)>>
    ELSE IF method \in DOMAIN registry THEN <<registry[method]>>
    ELSE <<>>

\* aggregator.aggregate(recentPrices, weights)
consensusOf(aggregator, recentPrices, weights) ==
    CASE aggregator.class = "WeightedAverageAggregator" ->
            WeightedAverageAggregator(recentPrices, weights)
      [] aggregator.class = "MedianAggregator" ->
            MedianAggregator(recentPrices, weights)
      [] aggregator.class = "TrimmedMeanAggregator" ->
            TrimmedMeanAggregator(aggregator.trimPercentage, recentPrices,
                                  weights)

\* the AggregatedPrice object aggregate builds
resultOf(symbol, method, consensusPrice, recentPrices, now) ==
    LET metrics == calculateMetrics(recentPrices)
        confidence == calculateConfidence(metrics, Len(recentPrices))
        timestamps == {recentPrices[i].timestamp : i \in 1..Len(recentPrices)}
    IN  [symbol |-> symbol,
         price |-> consensusPrice,
         method |-> method,
         confidence |-> confidence,
         metrics |-> [standardDeviation |-> metrics.standardDeviation,
                      spread |-> metrics.spread,
                      variance |-> metrics.variance,
                      sourceCount |-> Len(recentPrices)],
         startTimestamp |-> MinOf(timestamps),
         endTimestamp |-> MaxOf(timestamps),
         sources |-> Unique([i \in 1..Len(recentPrices) |-> recentPrices[i].source]),
         computedAt |-> now]

\* the cache writes and the metric of a successful aggregate
Succeeded(st, symbol, result, recentPrices, now) ==
    LET st1 == [st EXCEPT !.heap = Append(@, result)]      \* the result object
        ref == Len(st1.heap)
        st2 == setLastNormalized(st1, symbol, recentPrices, now)
        st3 == setLastAggregated(st2, symbol, ref, now)
    IN  [st |-> recordAggregation(st3),
         out |-> [error |-> "", result |-> <<result>>, ref |-> ref,
                  recentPrices |-> recentPrices]]

\* aggregate keeping the strategy it built in the Map
aggregateRecent_KeepsStrategy(st, symbol, recentPrices, options, now) ==
    LET method == OrDefault(options.method, "weighted-average")
        minSources == OrDefault(options.minSources, 3)
        trimPercentage == OrDefault(options.trimPercentage, 20)
        weights == prepareWeights(recentPrices, options.customWeights)
        aggregator == aggregatorOf(st.aggregators, method, trimPercentage)
        consensus == consensusOf(aggregator[1], recentPrices, weights)
        kept == IF method = "trimmed-mean" /\ aggregator # <<>>
                  THEN [st EXCEPT !.aggregators[method] = aggregator[1]]
                  ELSE st
    IN  IF Len(recentPrices) < minSources
          THEN Failed(st, "Insufficient recent sources")
        ELSE IF method = "trimmed-mean" /\ trimPercentage # 20
                /\ ~TrimPercentageOk(trimPercentage)
          THEN Failed(st, "Trim percentage must be between 0 and 0.5")
        ELSE IF aggregator = <<>>
          THEN Failed(st, "Unknown aggregation method")
        ELSE IF consensus.error # "" THEN Failed(kept, consensus.error)
        ELSE Succeeded(kept, symbol,
                       resultOf(symbol, method, consensus.value[1],
                                recentPrices, now),
                       recentPrices, now)

\* aggregate from the check of the recent prices on
aggregateRecent(st, symbol, recentPrices, options, now) ==
    LET method == OrDefault(options.method, "weighted-average")
        minSources == OrDefault(options.minSources, 3)
        trimPercentage == OrDefault(options.trimPercentage, 20)
        weights == prepareWeights(recentPrices, options.customWeights)
        aggregator == aggregatorOf(st.aggregators, method, trimPercentage)
        consensus == consensusOf(aggregator[1], recentPrices, weights)
    IN  IF Len(recentPrices) < minSources
          THEN Failed(st, "Insufficient recent sources")
        ELSE IF method = "trimmed-mean" /\ trimPercentage # 20
                /\ ~TrimPercentageOk(trimPercentage)
          THEN Failed(st, "Trim percentage must be between 0 and 0.5")
        ELSE IF aggregator = <<>>
          THEN Failed(st, "Unknown aggregation method")
        ELSE IF consensus.error # "" THEN Failed(st, consensus.error)
        ELSE Succeeded(st, symbol,
                       resultOf(symbol, method, consensus.value[1],
                                recentPrices, now),
                       recentPrices, now)

\* aggregate recording the recent prices in the cache as soon as it has them
aggregate_WritesFirst(st, symbol, prices, options, now) ==
    LET invalid == validateInputs(symbol, prices, OrDefault(options.minSources, 3))
        windowStart == now - OrDefault(options.timeWindowMs, 30000)
        recentPrices == recentOf(prices, windowStart)
    IN  IF invalid # "" THEN Failed(st, invalid)
        ELSE aggregateRecent(setLastNormalized(st, symbol, recentPrices, now),
                             symbol, recentPrices, options, now)

\* aggregate(symbol, prices, options) called at time `now` in store st:
\* the store it leaves and what it returns or throws
aggregate(st, symbol, prices, options, now) ==
    LET invalid == validateInputs(symbol, prices, OrDefault(options.minSources, 3))
        windowStart == now - OrDefault(options.timeWindowMs, 30000)
        recentPrices == recentOf(prices, windowStart)
    IN  IF invalid # "" THEN Failed(st, invalid)
        ELSE aggregateRecent(st, symbol, recentPrices, options, now)

\* history: the last successful outcome of each symbol
recordOutcome(r, symbol) ==
    IF r.out.error = ""
      THEN [r EXCEPT !.st.lastOk = MapSet(@, symbol, r.out)]
      ELSE r

\* the variables take the values of store st
StoreBecomes(st) ==
    /\ heap' = st.heap
    /\ lastAggregated' = st.lastAggregated
    /\ lastNormalized' = st.lastNormalized
    /\ updatedAt' = st.updatedAt
    /\ aggregationCount' = st.aggregationCount
    /\ aggregationErrors' = st.aggregationErrors
    /\ aggregators' = st.aggregators
    /\ lastOk' = st.lastOk

RECURSIVE aggregateEntries_NoCatch(_, _, _, _, _)
\* the loop without its try / catch: the first failure propagates
aggregateEntries_NoCatch(r, entries, i, options, now) ==
    IF i > Len(entries) THEN r
    ELSE LET e == entries[i]
             a == recordOutcome(aggregate(r.st, e.symbol, e.prices, options, now),
                                e.symbol)
         IN  IF a.out.error # ""
               THEN [st |-> a.st, error |-> a.out.error, results |-> r.results]
               ELSE aggregateEntries_NoCatch(
                        [st |-> a.st, error |-> "",
                         results |-> MapSet(r.results, e.symbol, a.out.ref)],
                        entries, i + 1, options, now)

aggregateMultiple_NoCatch(st, pricesBySymbol, options, now) ==
    aggregateEntries_NoCatch([st |-> st, error |-> "", results |-> EmptyMap],
                             pricesBySymbol, 1, options, now)

RECURSIVE aggregateEntries(_, _, _, _, _)
\* aggregateMultiple's loop from entry i on: try aggregate, set the result,
\* catch and log
aggregateEntries(r, entries, i, options, now) ==
    IF i > Len(entries) THEN r
    ELSE LET e == entries[i]
             a == recordOutcome(aggregate(r.st, e.symbol, e.prices, options, now),
                                e.symbol)
         IN  aggregateEntries(
                 [st |-> a.st,
                  error |-> "",
                  results |-> IF a.out.error = ""
                                THEN MapSet(r.results, e.symbol, a.out.ref)
                                ELSE r.results],
                 entries, i + 1, options, now)

\* aggregateMultiple(pricesBySymbol, options); the Map is its entries in order
aggregateMultiple(st, pricesBySymbol, options, now) ==
    aggregateEntries([st |-> st, error |-> "", results |-> EmptyMap],
                     pricesBySymbol, 1, options, now)

\* ---- DebugService.getLastPrices -----------------------------------------

\* the LastPricesDto: two new Records holding the references of the Maps
getLastPrices ==
    [aggregated |-> [sym \in DOMAIN lastAggregated |-> lastAggregated[sym]],
     normalized |-> [sym \in DOMAIN lastNormalized |-> lastNormalized[sym]],
     updatedAt |-> updatedAt]

\* what a reader finds when it follows the references of a LastPricesDto
Deref(dto, h) ==
    [aggregated |-> [sym \in DOMAIN dto.aggregated |-> h[dto.aggregated[sym]]],
     normalized |-> [sym \in DOMAIN dto.normalized |-> h[dto.normalized[sym]]],
     updatedAt |-> dto.updatedAt]

\* ---- inputs -------------------------------------------------------------

\* Date.now() at construction
T0 == 100000

\* the clock advances by TickMs at a time, at most MaxTicks times
TickMs == 15000
MaxTicks == 2
MaxClock == T0 + MaxTicks * TickMs

\* at most this many quotes in the list of one aggregate call
MaxQuotes == 3

\* at most this many aggregate calls (direct or through aggregateMultiple)
MaxCalls == 3

Recent100 == Quote("AAPL", Fin(100), T0 - 1000, "AlphaVantage")
Recent104 == Quote("AAPL", Fin(104), T0 - 2000, "Finnhub")
Boundary102 == Quote("AAPL", Fin(102), T0 - 30000, "AlphaVantage")
Outside110 == Quote("AAPL", Fin(110), T0 - 30001, "Bloomberg")
Future106 == Quote("AAPL", Fin(106), T0 + 5000, "Reuters")
OtherSymbol == Quote("MSFT", Fin(300), T0 - 1000, "Finnhub")
ZeroPrice == Quote("AAPL", Fin(0), T0 - 1000, "Finnhub")
NaNOutside == Quote("AAPL", NaN, T0 - 50000, "AlphaVantage")

QuoteInputs ==
    {Recent100, Recent104, Boundary102, Outside110, Future106, OtherSymbol,
     ZeroPrice, NaNOutside}

QuoteLists == UNION {[1..n -> QuoteInputs] : n \in 0..MaxQuotes}

Call(symbol, prices, options) ==
    [symbol |-> symbol, prices |-> prices, options |-> options]

\* the options of those calls: each minSources with each method, with a trim
\* fraction of one half, with weights that sum to zero
OptionInputs ==
    LET MinInputs == {<<>>, <<0>>, <<1>>, <<2>>}
    IN  {Options(minS, <<>>, meth, <<>>, <<>>) :
            minS \in MinInputs,
            meth \in {<<>>, <<"median">>, <<"trimmed-mean">>, <<"unknown">>}}
        \cup {Options(minS, <<>>, <<"trimmed-mean">>, <<>>, <<50>>) :
                 minS \in MinInputs}
        \cup {Options(minS, <<>>, <<>>,
                      <<[AlphaVantage |-> 10, Finnhub |-> -10, Reuters |-> 0]>>,
                      <<>>) : minS \in MinInputs}

\* the calls of the specification of aggregate as a function of its arguments
AggInputs ==
    {Call(symbol, prices, options) :
        symbol \in {"", " ", "AAPL"},
        prices \in QuoteLists,
        options \in OptionInputs}

Msft300 == Quote("MSFT", Fin(300), T0 - 1000, "AlphaVantage")
Msft302 == Quote("MSFT", Fin(302), T0, "Finnhub")

Min2 == Options(<<2>>, <<>>, <<>>, <<>>, <<>>)

\* the calls made against the cache: some succeed, some fail at validation,
\* at the window, at the method, at the trim fraction, at the total weight
CacheCalls ==
    {Call("AAPL", <<Recent100, Recent104>>, Min2),
     Call("AAPL", <<Outside110, Recent104, Boundary102>>,
          Options(<<2>>, <<>>, <<"median">>, <<>>, <<>>)),
     Call("AAPL", <<Recent100>>, Min2),
     Call("AAPL", <<Recent100, ZeroPrice>>, Min2),
     Call("AAPL", <<Recent100, Recent104>>,
          Options(<<2>>, <<>>, <<"unknown">>, <<>>, <<>>)),
     Call("AAPL", <<Recent100, Recent104>>,
          Options(<<2>>, <<>>, <<"trimmed-mean">>, <<>>, <<50>>)),
     Call("AAPL", <<Recent100, Recent104>>,
          Options(<<2>>, <<>>, <<>>,
                  <<[AlphaVantage |-> 0, Finnhub |-> 0]>>, <<>>)),
     Call("MSFT", <<Msft300, Msft302>>, Min2),
     Call("MSFT", <<>>, Min2)}

Entry(symbol, prices) == [symbol |-> symbol, prices |-> prices]

\* the maps given to aggregateMultiple, with options Min2
MultiInputs ==
    {<<Entry("AAPL", <<Recent100, Recent104>>),
       Entry("MSFT", <<Msft300, Msft302>>)>>,
     <<Entry("MSFT", <<>>),
       Entry("AAPL", <<Recent100, Recent104>>)>>,
     <<Entry("AAPL", <<Recent100, OtherSymbol>>),
       Entry("MSFT", <<Msft300>>)>>,
     <<>>}

\* ---- actions ------------------------------------------------------------

\* one call of aggregate, start to finish
aggregateWith(c) ==
    LET r == recordOutcome(aggregate(Store, c.symbol, c.prices, c.options, clock),
                           c.symbol)
    IN  /\ StoreBecomes(r.st)
        /\ aggCall' = <<c>>
        /\ aggOutcome' = <<r.out>>
    /\ UNCHANGED <<clock, multiCall, multiOutcome, snapshot, snapshotSeen>>
    /\ lastOp' = "aggregate"
    /\ UNCHANGED aggOthers

\* aggregate is applied to the arguments chosen initially
aggregateRun ==
    /\ aggCall # <<>> /\ aggOutcome = <<>>
    /\ aggregateWith(aggCall[1])

\* aggregate is called on the running service
callAggregate ==
    /\ aggregationCount + aggregationErrors < MaxCalls
    /\ \E c \in CacheCalls : aggregateWith(c)

callAggregateMultiple ==
    /\ \E m \in MultiInputs :
          /\ aggregationCount + aggregationErrors + Len(m) <= MaxCalls
          /\ LET r == aggregateMultiple(Store, m, Min2, clock)
             IN  /\ StoreBecomes(r.st)
                 /\ multiCall' = <<m>>
                 /\ multiOutcome' = <<[error |-> r.error, results |-> r.results]>>
    /\ UNCHANGED <<clock, aggCall, aggOutcome, snapshot, snapshotSeen>>
    /\ lastOp' = "aggregateMultiple"
    /\ UNCHANGED aggOthers

\* GET of the debug endpoint
callGetLastPrices ==
    /\ snapshot' = <<getLastPrices>>
    /\ snapshotSeen' = <<Deref(getLastPrices, heap)>>
    /\ UNCHANGED <<clock, debugVars, aggregationCount, aggregationErrors,
                   aggregators,
                   aggCall, aggOutcome, lastOk, multiCall, multiOutcome>>
    /\ lastOp' = "getLastPrices"
    /\ UNCHANGED aggOthers

\* time passes
aggTick ==
    /\ clock + TickMs <= MaxClock
    /\ clock' = clock + TickMs
    /\ UNCHANGED <<debugVars, aggregationCount, aggregationErrors, aggregators,
                   aggCall,
                   aggOutcome, lastOk, multiCall, multiOutcome, snapshot,
                   snapshotSeen>>
    /\ lastOp' = "aggTick"
    /\ UNCHANGED aggOthers

NextCache ==
    \/ callAggregate
    \/ callAggregateMultiple
    \/ callGetLastPrices
    \/ aggTick

InitAgg ==
    /\ clock = T0
    /\ heap = <<>>
    /\ lastAggregated = EmptyMap
    /\ lastNormalized = EmptyMap
    /\ updatedAt = 0
    /\ aggregationCount = 0
    /\ aggregationErrors = 0
    /\ aggregators = NewAggregators
    /\ aggCall = <<>>
    /\ aggOutcome = <<>>
    /\ lastOk = EmptyMap
    /\ multiCall = <<>>
    /\ multiOutcome = <<>>
    /\ snapshot = <<>>
    /\ snapshotSeen = <<>>

-----------------------------------------------------------------------------
(* NormalizationService: dispatch of a raw record to the first normalizer
   that recognises its source, and the record BaseNormalizer builds.

   A string is the sequence of its characters, so that toLowerCase, trim,
   replace and includes are computed.  A field of a raw record is a
   JavaScript value with its type.  A price counts hundred-thousandths (so
   that rounding to four decimals does something); a timestamp counts
   milliseconds. *)

JsString(cs) == [t |-> "string", k |-> "", s |-> cs, n |-> 0]
JsNumber(x) == [t |-> "number", k |-> "finite", s |-> <<>>, n |-> x]
JsNaN == [t |-> "number", k |-> "NaN", s |-> <<>>, n |-> 0]
JsInfinity == [t |-> "number", k |-> "Infinity", s |-> <<>>, n |-> 0]
JsUndefined == [t |-> "undefined", k |-> "", s |-> <<>>, n |-> 0]
JsNull == [t |-> "null", k |-> "", s |-> <<>>, n |-> 0]

typeof(v) == IF v.t = "null" THEN "object" ELSE v.t

\* !v
Falsy(v) ==
    \/ v.t \in {"undefined", "null"}
    \/ v.t = "string" /\ v.s = <<>>
    \/ v.t = "number" /\ (v.k = "NaN" \/ (v.k = "finite" /\ v.n = 0))

\* a RawPrice as a caller hands it over; null is a value a caller can pass
RawPrice(sym, pr, ts, src) ==
    [isNull |-> FALSE, symbol |-> sym, price |-> pr, timestamp |-> ts,
     source |-> src]
NullRawPrice ==
    [isNull |-> TRUE, symbol |-> JsUndefined, price |-> JsUndefined,
     timestamp |-> JsUndefined, source |-> JsUndefined]

UpperCase == <<"A", "B", "C", "D", "E", "F", "G", "H", "I", "J", "K", "L", "M",
               "N", "O", "P", "Q", "R", "S", "T", "U", "V", "W", "X", "Y", "Z">>
LowerCase == <<"a", "b", "c", "d", "e", "f", "g", "h", "i", "j", "k", "l", "m",
               "n", "o", "p", "q", "r", "s", "t", "u", "v", "w", "x", "y", "z">>

Translate(c, from, to) ==
    IF \E i \in 1..Len(from) : from[i] = c
    THEN to[CHOOSE i \in 1..Len(from) : from[i] = c]
    ELSE c

toLowerCase(s) == [i \in 1..Len(s) |-> Translate(s[i], UpperCase, LowerCase)]
toUpperCase(s) == [i \in 1..Len(s) |-> Translate(s[i], LowerCase, UpperCase)]

IsSeparator(c) == c \in {" ", "_", "-"}

\* s.replace(/[\s_-]/g, '')
StripSeparators(s) == SelectSeq(s, LAMBDA c : ~IsSeparator(c))

\* s.includes(sub)
includes(s, sub) ==
    \E i \in 0..(Len(s) - Len(sub)) : SubSeq(s, i + 1, i + Len(sub)) = sub

startsWith(s, pre) == Len(pre) <= Len(s) /\ SubSeq(s, 1, Len(pre)) = pre
endsWith(s, suf) ==
    Len(suf) <= Len(s) /\ SubSeq(s, Len(s) - Len(suf) + 1, Len(s)) = suf

\* s.trim()
RECURSIVE TrimStart(_)
TrimStart(s) ==
    IF s # <<>> /\ Head(s) = " " THEN TrimStart(Tail(s)) ELSE s

RECURSIVE TrimEnd(_)
TrimEnd(s) ==
    IF s # <<>> /\ s[Len(s)] = " " THEN TrimEnd(SubSeq(s, 1, Len(s) - 1)) ELSE s

trim(s) == TrimEnd(TrimStart(s))

\* BaseNormalizer.cleanSymbol
cleanSymbol(symbol) == toUpperCase(trim(symbol))

\* s.replace(/\.(A|B|...)$/i, ''), the alternatives tried in the order written
RemoveSuffix(s, alternatives) ==
    LET hit(i) == endsWith(toUpperCase(s), <<".">> \o alternatives[i])
    IN  IF \E i \in 1..Len(alternatives) : hit(i)
        THEN LET i == CHOOSE j \in 1..Len(alternatives) :
                          hit(j) /\ \A l \in 1..(j - 1) : ~hit(l)
             IN  SubSeq(s, 1, Len(s) - Len(alternatives[i]) - 1)
        ELSE s

\* s.replace(/^(A|B|...)-/i, '')
RemovePrefix(s, alternatives) ==
    LET hit(i) == startsWith(toUpperCase(s), alternatives[i] \o <<"-">>)
    IN  IF \E i \in 1..Len(alternatives) : hit(i)
        THEN LET i == CHOOSE j \in 1..Len(alternatives) :
                          hit(j) /\ \A l \in 1..(j - 1) : ~hit(l)
             IN  SubSeq(s, Len(alternatives[i]) + 2, Len(s))
        ELSE s

\* ---- the normalizers ------------------------------------------------------

\* registerDefaultNormalizers: the values of the Map, in insertion order
Normalizers == <<"AlphaVantageNormalizer", "FinnhubNormalizer",
                 "YahooFinanceNormalizer", "MockNormalizer">>

\* readonly source of each normalizer (NormalizedSource)
NormalizedSourceOf(name) ==
    CASE name = "AlphaVantageNormalizer" -> "alpha_vantage"
      [] name = "FinnhubNormalizer" -> "finnhub"
      [] name = "YahooFinanceNormalizer" -> "yahoo_finance"
      [] name = "MockNormalizer" -> "mock"

\* SOURCE_IDENTIFIERS of each normalizer
SOURCE_IDENTIFIERS(name) ==
    CASE name = "AlphaVantageNormalizer" ->
           << <<"a","l","p","h","a","v","a","n","t","a","g","e">>,
              <<"a","l","p","h","a","_","v","a","n","t","a","g","e">>,
              <<"a","l","p","h","a","-","v","a","n","t","a","g","e">> >>
      [] name = "FinnhubNormalizer" -> << <<"f","i","n","n","h","u","b">> >>
      [] name = "YahooFinanceNormalizer" ->
           << <<"y","a","h","o","o">>,
              <<"y","a","h","o","o","f","i","n","a","n","c","e">>,
              <<"y","a","h","o","o","_","f","i","n","a","n","c","e">>,
              <<"y","a","h","o","o","-","f","i","n","a","n","c","e">> >>
      [] name = "MockNormalizer" -> << <<"m","o","c","k">> >>

\* rawPrice.source.toLowerCase() can be evaluated: the record is an object
\* and its source is a string; otherwise the expression throws a TypeError
SourceIsString(rawPrice) == ~rawPrice.isNull /\ rawPrice.source.t = "string"

\* canNormalize of each normalizer, for a record whose source is a string
canNormalize(name, rawPrice) ==
    LET ids == SOURCE_IDENTIFIERS(name)
        lower == toLowerCase(rawPrice.source.s)
    IN  IF name \in {"AlphaVantageNormalizer", "YahooFinanceNormalizer"}
        THEN \E i \in 1..Len(ids) :
                includes(StripSeparators(lower), StripSeparators(ids[i]))
        ELSE \E i \in 1..Len(ids) : includes(lower, ids[i])

\* normalizeSymbol of each normalizer
normalizeSymbol(name, symbol) ==
    CASE name = "AlphaVantageNormalizer" ->
           RemoveSuffix(cleanSymbol(symbol),
               << <<"U","S">>, <<"N","Y","S","E">>,
                  <<"N","A","S","D","A","Q">>, <<"L","S","E">>,
                  <<"T","S","X">>, <<"A","S","X">>, <<"H","K">>,
                  <<"L","O","N">> >>)
      [] name = "FinnhubNormalizer" ->
           RemovePrefix(cleanSymbol(symbol),
               << <<"U","S">>, <<"C","R","Y","P","T","O">>, <<"F","X">>,
                  <<"I","N","D","I","C","E","S">> >>)
      [] name = "YahooFinanceNormalizer" ->
           LET stripped ==
                 RemoveSuffix(cleanSymbol(symbol),
                   << <<"L">>, <<"T">>, <<"A","X">>, <<"H","K">>, <<"S","I">>,
                      <<"K","S">>, <<"T","W">>, <<"N","S">>, <<"B","O">>,
                      <<"T","O">>, <<"V">>, <<"F">>, <<"D","E">>, <<"P","A">>,
                      <<"A","S">>, <<"B","R">>, <<"M","C">>, <<"M","I">>,
                      <<"S","W">>, <<"C","O">>, <<"M","X">>, <<"S","A">>,
                      <<"J","K">>, <<"K","L">> >>)
           IN  IF startsWith(stripped, <<"^">>) THEN Tail(stripped)
               ELSE stripped
      [] name = "MockNormalizer" -> cleanSymbol(symbol)

\* ---- BaseNormalizer -------------------------------------------------------

\* what normalize returns or throws; kind is the class of the error
NormReturns(x) == [kind |-> "", message |-> "", value |-> <<x>>]
NormThrows(kind, message) == [kind |-> kind, message |-> message, value |-> <<>>]

\* BaseNormalizer.validateRawPrice: the message of the ValidationException it
\* throws, "" when it returns
validateRawPrice(rawPrice) ==
    IF rawPrice.isNull THEN "Raw price cannot be null or undefined"
    ELSE IF Falsy(rawPrice.symbol) \/ typeof(rawPrice.symbol) # "string"
    THEN "Symbol is required and must be a string"
    ELSE IF typeof(rawPrice.price) # "number"
    THEN "Price is required and must be a number"
    ELSE IF rawPrice.price.k # "finite"
    THEN "Price must be a valid finite number"
    ELSE IF rawPrice.price.n < 0 THEN "Price cannot be negative"
    ELSE IF Falsy(rawPrice.timestamp) \/ typeof(rawPrice.timestamp) # "number"
    THEN "Timestamp is required and must be a number"
    ELSE IF Falsy(rawPrice.source) \/ typeof(rawPrice.source) # "string"
    THEN "Source is required and must be a string"
    ELSE ""

\* Math.round(price * 10000) / 10000, on hundred-thousandths
normalizePrice(n) == ((n + 5) \div 10) * 10

\* new Date(timestamp) is a valid date (the timestamps modelled are far
\* inside the range of Date; only an infinite one is out of it)
ValidDate(timestamp) == timestamp.k = "finite"

\* date.toISOString(): the text that denotes that instant
toISOString(ms) == [t |-> "string", instant |-> ms]

\* BaseNormalizer.normalize of the normalizer called name
baseNormalize(name, rawPrice) ==
    LET invalid == validateRawPrice(rawPrice)
        normalizedSymbol == normalizeSymbol(name, rawPrice.symbol.s)
        normalizedPrice == normalizePrice(rawPrice.price.n)
        transformations ==
            (IF normalizedSymbol # rawPrice.symbol.s THEN <<"symbol">> ELSE <<>>)
            \o (IF normalizedPrice # rawPrice.price.n THEN <<"price">> ELSE <<>>)
    IN  IF invalid # "" THEN NormThrows("ValidationException", invalid)
        ELSE IF ~ValidDate(rawPrice.timestamp)
        THEN NormThrows("ValidationException", "Invalid timestamp")
        ELSE NormReturns(
               [symbol |-> normalizedSymbol,
                price |-> normalizedPrice,
                timestamp |-> toISOString(rawPrice.timestamp.n),
                originalTimestamp |-> rawPrice.timestamp.n,
                source |-> NormalizedSourceOf(name),
                metadata |->
                  [originalSource |-> rawPrice.source.s,
                   originalSymbol |-> rawPrice.symbol.s,
                   normalizerVersion |-> "1.0.0",
                   wasTransformed |-> Len(transformations) > 0,
                   transformations |-> transformations]])

\* ---- NormalizationService -------------------------------------------------

\* a normalizer object: the name it is registered under and the class that
\* gives its canNormalize, normalizeSymbol and source
Normalizer(name, class) == [name |-> name, class |-> class]

NamesOf(registry) == [i \in 1..Len(registry) |-> registry[i].name]

\* this.normalizers.set(normalizer.name, normalizer): a Map keeps the place
\* of a key it already holds
registerNormalizer(registry, normalizer) ==
    IF \E i \in 1..Len(registry) : registry[i].name = normalizer.name
    THEN [i \in 1..Len(registry) |->
             IF registry[i].name = normalizer.name THEN normalizer
             ELSE registry[i]]
    ELSE Append(registry, normalizer)

\* registerDefaultNormalizers, on the empty Map
RECURSIVE registerAll(_, _)
registerAll(registry, names) ==
    IF names = <<>> THEN registry
    ELSE registerAll(registerNormalizer(registry,
                         Normalizer(Head(names), Head(names))),
                     Tail(names))

DefaultRegistry == registerAll(<<>>, Normalizers)

\* a findNormalizer that keeps the last normalizer that recognises the record
findNormalizer_Last(rawPrice) ==
    LET hits == {i \in 1..Len(normalizers) :
                    canNormalize(normalizers[i].class, rawPrice)}
    IN  IF hits = {} THEN <<>>
        ELSE <<normalizers[CHOOSE i \in hits : \A j \in hits : i >= j].class>>

\* NormalizationService.findNormalizer, for a record whose source is a
\* string: the first normalizer that recognises it (<<>> = null)
findNormalizer(rawPrice) ==
    LET hits == {i \in 1..Len(normalizers) :
                    canNormalize(normalizers[i].class, rawPrice)}
    IN  IF hits = {} THEN <<>>
        ELSE <<normalizers[CHOOSE i \in hits : \A j \in hits : i <= j].class>>

\* NormalizationService.normalize.  The lookup runs first and the first
\* registered normalizer evaluates rawPrice.source.toLowerCase() on the
\* record as given.
normalize(rawPrice) ==
    IF ~SourceIsString(rawPrice)
    THEN NormThrows("TypeError", "rawPrice.source.toLowerCase")
    ELSE LET found == findNormalizer(rawPrice)
         IN  IF found = <<>>
             THEN NormThrows("NormalizationException",
                             "No normalizer found for source")
             ELSE baseNormalize(found[1], rawPrice)

\* ---- inputs -------------------------------------------------------------

SymbolInputs ==
    {JsString(<<"A","A","P","L">>),
     JsString(<<" ","a","a","p","l"," ">>),
     JsString(<<"A","A","P","L",".","U","S">>),
     JsString(<<"U","S","-","A","A","P","L">>),
     JsString(<<"^","D","J","I">>),
     JsString(<<"B","H","P",".","A","X">>),
     JsString(<<" "," ">>),
     JsString(<<>>),
     JsNumber(7),
     JsUndefined}

PriceInputs ==
    {JsNumber(15000000), JsNumber(15012345), JsNumber(0), JsNumber(-100),
     JsNaN, JsInfinity, JsString(<<"1","5","0">>), JsNull, JsUndefined}

TimestampInputs ==
    {JsNumber(T0), JsNumber(0), JsNumber(-1), JsNaN, JsInfinity,
     JsString(<<"2","0","2","6">>), JsUndefined}

SourceInputs ==
    {JsString(<<"A","l","p","h","a","V","a","n","t","a","g","e">>),
     JsString(<<"a","l","p","h","a","_","v","a","n","t","a","g","e">>),
     JsString(<<"F","i","n","n","h","u","b">>),
     JsString(<<"Y","a","h","o","o"," ","F","i","n","a","n","c","e">>),
     JsString(<<"M","o","c","k","P","r","o","v","i","d","e","r">>),
     JsString(<<"m","o","c","k","-","f","i","n","n","h","u","b">>),
     JsString(<<"U","n","k","n","o","w","n","S","o","u","r","c","e">>),
     JsString(<<>>),
     JsNumber(7),
     JsNull,
     JsUndefined}

RawInputs ==
    {NullRawPrice}
    \cup {RawPrice(sym, pr, ts, src) :
            sym \in SymbolInputs, pr \in PriceInputs,
            ts \in TimestampInputs, src \in SourceInputs}

\* ---- actions ------------------------------------------------------------

\* service.normalize(rawPrice), the outcome observed by the caller
normalizeRun ==
    /\ normCall # <<>>
    /\ normOutcome = <<>>
    /\ normOutcome' = <<normalize(normCall[1])>>
    /\ lastOp' = "normalize"
    /\ UNCHANGED <<normalizers, normCall, batchCall, batchOutcome>>
    /\ UNCHANGED normOthers

\* ---- batch normalization --------------------------------------------------

\* what a batch operation returns or throws
BatchReturns(x) == [raised |-> "", value |-> <<x>>]
BatchThrows(kind) == [raised |-> kind, value |-> <<>>]

\* the template string of the warning in a catch block reads rawPrice.symbol:
\* it can be evaluated on any object, and throws a TypeError on null
WarnEvaluates(rawPrice) == ~rawPrice.isNull

\* the loop of NormalizationService.normalizeMany
RECURSIVE normalizeManyFrom(_, _)
normalizeManyFrom(rawPrices, results) ==
    IF rawPrices = <<>> THEN BatchReturns(results)
    ELSE LET rawPrice == Head(rawPrices)
             out == normalize(rawPrice)
         IN  IF out.kind = ""
             THEN normalizeManyFrom(Tail(rawPrices),
                                    Append(results, out.value[1]))
             ELSE IF ~WarnEvaluates(rawPrice) THEN BatchThrows("TypeError")
             ELSE normalizeManyFrom(Tail(rawPrices), results)

normalizeMany(rawPrices) == normalizeManyFrom(rawPrices, <<>>)

\* a NormalizationFailure
Failure(rawPrice, message, now) ==
    [rawPrice |-> rawPrice, error |-> message, timestamp |-> toISOString(now)]

\* the loop of NormalizationService.normalizeManyWithErrors
RECURSIVE normalizeManyWithErrorsFrom(_, _, _, _)
normalizeManyWithErrorsFrom(rawPrices, successful, failed, now) ==
    IF rawPrices = <<>>
    THEN BatchReturns([successful |-> successful, failed |-> failed])
    ELSE LET rawPrice == Head(rawPrices)
             out == normalize(rawPrice)
         IN  IF out.kind = ""
             THEN normalizeManyWithErrorsFrom(Tail(rawPrices),
                      Append(successful, out.value[1]), failed, now)
             ELSE normalizeManyWithErrorsFrom(Tail(rawPrices), successful,
                      Append(failed, Failure(rawPrice, out.message, now)), now)

normalizeManyWithErrors(rawPrices, now) ==
    normalizeManyWithErrorsFrom(rawPrices, <<>>, <<>>, now)

\* the loop of NormalizationService.normalizeBySource; result is the Map
RECURSIVE normalizeBySourceFrom(_, _)
normalizeBySourceFrom(rawPrices, result) ==
    IF rawPrices = <<>> THEN BatchReturns(result)
    ELSE LET rawPrice == Head(rawPrices)
             out == normalize(rawPrice)
         IN  IF out.kind = ""
             THEN LET normalized == out.value[1]
                      existing == IF normalized.source \in DOMAIN result
                                  THEN result[normalized.source] ELSE <<>>
                  IN  normalizeBySourceFrom(Tail(rawPrices),
                          MapSet(result, normalized.source,
                                 Append(existing, normalized)))
             ELSE IF ~WarnEvaluates(rawPrice) THEN BatchThrows("TypeError")
             ELSE normalizeBySourceFrom(Tail(rawPrices), result)

normalizeBySource(rawPrices) == normalizeBySourceFrom(rawPrices, EmptyMap)

\* ---- batch inputs ---------------------------------------------------------

\* at most this many records in one batch
MaxBatch == 2

AlphaVantageSource == JsString(<<"A","l","p","h","a","V","a","n","t","a","g","e">>)
FinnhubSource == JsString(<<"F","i","n","n","h","u","b">>)
UnknownSource == JsString(<<"U","n","k","n","o","w","n","S","o","u","r","c","e">>)

AaplUs == JsString(<<"A","A","P","L",".","U","S">>)
UsAapl == JsString(<<"U","S","-","A","A","P","L">>)
Msft == JsString(<<"M","S","F","T">>)

BatchRecords ==
    {NullRawPrice,
     RawPrice(AaplUs, JsNumber(15012345), JsNumber(T0), AlphaVantageSource),
     RawPrice(Msft, JsNumber(30000000), JsNumber(T0), AlphaVantageSource),
     RawPrice(UsAapl, JsNumber(15000000), JsNumber(T0), FinnhubSource),
     RawPrice(Msft, JsNumber(30000000), JsNumber(T0), UnknownSource),
     RawPrice(Msft, JsNumber(-100), JsNumber(T0), AlphaVantageSource),
     RawPrice(Msft, JsNumber(30000000), JsNumber(T0), JsUndefined)}

RECURSIVE ListsUpTo(_, _)
ListsUpTo(S, n) ==
    IF n = 0 THEN {<<>>}
    ELSE LET shorter == ListsUpTo(S, n - 1)
         IN  shorter \cup {Append(l, x) : l \in shorter, x \in S}

BatchInputs == ListsUpTo(BatchRecords, MaxBatch)

\* ---- batch actions --------------------------------------------------------

batchRun(op, rawPrices, outcome) ==
    /\ batchCall' = <<[op |-> op, rawPrices |-> rawPrices]>>
    /\ batchOutcome' = <<outcome>>
    /\ lastOp' = op
    /\ UNCHANGED <<normalizers, normCall, normOutcome>>
    /\ UNCHANGED normOthers

callNormalizeMany ==
    \E rawPrices \in BatchInputs :
        batchRun("normalizeMany", rawPrices, normalizeMany(rawPrices))

callNormalizeManyWithErrors ==
    \E rawPrices \in BatchInputs :
        batchRun("normalizeManyWithErrors", rawPrices,
                 normalizeManyWithErrors(rawPrices, clock))

callNormalizeBySource ==
    \E rawPrices \in BatchInputs :
        batchRun("normalizeBySource", rawPrices, normalizeBySource(rawPrices))

NextBatch ==
    \/ callNormalizeMany
    \/ callNormalizeManyWithErrors
    \/ callNormalizeBySource

\* ---- normalizeSymbol and normalizePrice called on their own ----------------

\* a raw symbol is made of at most this many of the pieces below
MaxPieces == 3

\* prices of 0 .. MaxPriceUnits hundred-thousandths are rounded
MaxPriceUnits == 25

SymbolPieces ==
    {<<"A","A","P","L">>, <<"a","a","p","l">>, <<".","U","S">>, <<".","L">>,
     <<"U","S","-">>, <<"^">>, <<" ">>}

RECURSIVE Concatenations(_, _)
Concatenations(pieces, n) ==
    IF n = 0 THEN {<<>>}
    ELSE LET shorter == Concatenations(pieces, n - 1)
         IN  shorter \cup {s \o piece : s \in shorter, piece \in pieces}

RawSymbols == Concatenations(SymbolPieces, MaxPieces)

NormalizerNames == {Normalizers[i] : i \in 1..Len(Normalizers)}

unitRun(method, receiver, arg, outcome) ==
    /\ unitCall = <<>>
    /\ unitCall' = <<[method |-> method, receiver |-> receiver, arg |-> arg]>>
    /\ unitOutcome' = <<outcome>>
    /\ lastOp' = method
    /\ UNCHANGED unitOthers

\* normalizer.normalizeSymbol(s), and the same on its result
callNormalizeSymbol ==
    /\ unitCall = <<>>
    /\ \E name \in NormalizerNames, s \in RawSymbols :
           LET once == normalizeSymbol(name, s)
           IN  unitRun("normalizeSymbol", name, s,
                       [once |-> once, twice |-> normalizeSymbol(name, once)])

\* normalizePrice(price), and the same on its result
callNormalizePrice ==
    /\ unitCall = <<>>
    /\ \E n \in 0..MaxPriceUnits :
           LET once == normalizePrice(n)
           IN  unitRun("normalizePrice", "BaseNormalizer", n,
                       [once |-> once, twice |-> normalizePrice(once)])

NextRewrite == callNormalizeSymbol \/ callNormalizePrice

\* ---- the registry ---------------------------------------------------------

\* the normalizers a caller may register: one of the four classes, under the
\* name of a default normalizer or under a new name
Registerable ==
    {Normalizer(name, class) :
        name \in NormalizerNames \cup {"CustomNormalizer"},
        class \in NormalizerNames}

\* service.registerNormalizer(normalizer); lookups are observed on the
\* registry as it is when they are made
callRegisterNormalizer ==
    \E normalizer \in Registerable :
        /\ unitCall = <<>>
        /\ normalizers' = registerNormalizer(normalizers, normalizer)
        /\ lastOp' = "registerNormalizer"
        /\ UNCHANGED <<normCall, normOutcome, batchCall, batchOutcome>>
        /\ UNCHANGED normOthers

\* records that differ in every field but the source
FindInputs ==
    {RawPrice(AaplUs, JsNumber(15012345), JsNumber(T0), src) : src \in SourceInputs}
    \cup {RawPrice(JsUndefined, JsNaN, JsNumber(0), src) : src \in SourceInputs}

\* service.findNormalizer(rawPrice)
callFindNormalizer ==
    /\ unitCall = <<>>
    /\ \E rawPrice \in FindInputs :
           unitRun("findNormalizer", "NormalizationService", rawPrice,
                   IF SourceIsString(rawPrice)
                   THEN [raised |-> "", found |-> findNormalizer(rawPrice)]
                   ELSE [raised |-> "TypeError", found |-> <<>>])

NextRegistry == callRegisterNormalizer \/ callFindNormalizer

\* ---- calls of aggregate with weighted quotes ------------------------------

Weighted(quote, weight) == [quote EXCEPT !.weight = <<weight>>]

\* quotes inside the window: without a weight of their own, of a source the
\* registry lists or not, and with a weight of their own (3.0, 0, -1.5)
WeightQuotes ==
    {Quote("AAPL", Fin(100), T0 - 1000, "AlphaVantage"),
     Quote("AAPL", Fin(104), T0 - 2000, "Finnhub"),
     Quote("AAPL", Fin(90), T0 - 3000, "Unlisted"),
     Weighted(Quote("AAPL", Fin(110), T0, "Reuters"), 30),
     Weighted(Quote("AAPL", Fin(120), T0, "Finnhub"), 0),
     Weighted(Quote("AAPL", Fin(96), T0, "AlphaVantage"), -15)}

\* no override, an override of one source, overrides that cancel, overrides
\* that disable every source
WeightOverrides ==
    {<<>>,
     <<[AlphaVantage |-> 30]>>,
     <<[AlphaVantage |-> 10, Finnhub |-> -10, Unlisted |-> 5]>>,
     <<[AlphaVantage |-> 0, Finnhub |-> 0, Unlisted |-> 0, Reuters |-> 0]>>}

WeightCalls ==
    {Call("AAPL", prices, Options(<<1>>, <<>>, meth, cw, fraction)) :
        prices \in ListsUpTo(WeightQuotes, MaxQuotes),
        meth \in {<<>>, <<"trimmed-mean">>},
        cw \in WeightOverrides,
        fraction \in {<<40>>}}

\* ---- the strategies called on their own -----------------------------------

\* at most this many quotes in a list given to a strategy
MaxPrices == 5

\* two quotes of the same price (one with a weight of its own), a third
\* close to them and an outlier
StrategyQuotes ==
    {Quote("AAPL", Fin(100), T0, "AlphaVantage"),
     Weighted(Quote("AAPL", Fin(100), T0, "Finnhub"), 30),
     Quote("AAPL", Fin(104), T0, "Reuters"),
     Quote("AAPL", Fin(500), T0, "Unlisted")}

StrategyLists == ListsUpTo(StrategyQuotes, MaxPrices)

\* the weights argument: undefined, or a Map
WeightMaps ==
    {EmptyMap,
     [AlphaVantage |-> 15, Finnhub |-> 12, Reuters |-> 20, Unlisted |-> 5]}

\* trim fractions in percent, inside and outside [0, 50)
TrimInputs == {-10, 0, 20, 40, 49, 50, 60}

\* new TrimmedMeanAggregator(trimPercentage).aggregate(prices, weights)
newTrimmedMean(trimPercentage, prices, weights) ==
    IF ~TrimPercentageOk(trimPercentage)
    THEN Throws("Trim percentage must be between 0 and 0.5")
    ELSE TrimmedMeanAggregator(trimPercentage, prices, weights)

callTrimmedMean ==
    /\ unitCall = <<>>
    /\ \E trimPercentage \in TrimInputs, prices \in StrategyLists,
          weights \in WeightMaps :
           unitRun("trimmed-mean", trimPercentage,
                   [prices |-> prices, weights |-> weights],
                   newTrimmedMean(trimPercentage, prices, weights))

\* new TrimmedMeanAggregator(trimPercentage)
callNewTrimmedMean ==
    /\ unitCall = <<>>
    /\ \E trimPercentage \in TrimInputs :
           unitRun("new TrimmedMeanAggregator", trimPercentage, <<>>,
                   IF TrimPercentageOk(trimPercentage)
                   THEN Returns("trimmed-mean")
                   ELSE Throws("Trim percentage must be between 0 and 0.5"))

\* calls of aggregate with method trimmed-mean and each trim fraction
TrimCalls ==
    {Call("AAPL", prices, Options(minS, <<>>, <<"trimmed-mean">>, <<>>, fraction)) :
        prices \in ListsUpTo({Recent100, Recent104, Outside110}, MaxQuotes),
        minS \in {<<1>>, <<2>>},
        fraction \in {<<>>} \cup {<<t>> : t \in TrimInputs}}

NextTrim == aggregateRun \/ callNewTrimmedMean

-----------------------------------------------------------------------------
(* A strategy on a set of quotes and on the set with one outlier added *)

MaxBase == 6

BaseQuotes ==
    {Quote("AAPL", Fin(100), T0, "AlphaVantage"),
     Quote("AAPL", Fin(104), T0, "Finnhub"),
     Quote("AAPL", Fin(110), T0, "Reuters")}

\* sets of five quotes and more
BaseLists == UNION {[1..n -> BaseQuotes] : n \in 5..MaxBase}

\* far above and far below every base price
Outliers ==
    {Quote("AAPL", Fin(100000), T0, "Unlisted"),
     Quote("AAPL", Fin(2), T0, "Unlisted")}

\* the list with q after its first `at` elements
InsertAt(prices, at, q) ==
    SubSeq(prices, 1, at) \o <<q>> \o SubSeq(prices, at + 1, Len(prices))

\* aggregate of the median strategy and of the trimmed mean with t = 0.2
StrategyOf(name, prices, weights) ==
    IF name = "median" THEN MedianAggregator(prices, weights)
    ELSE newTrimmedMean(20, prices, weights)

\* aggregate(prices, weights), then aggregate on prices with the outlier
callWithOutlier ==
    /\ unitCall = <<>>
    /\ \E name \in {"median", "trimmed-mean"}, prices \in BaseLists,
          outlier \in Outliers, weights \in WeightMaps :
         \E at \in {0, 2, Len(prices)} :
           unitRun("aggregate", name,
                   [prices |-> prices, outlier |-> outlier, at |-> at,
                    weights |-> weights],
                   [before |-> StrategyOf(name, prices, weights),
                    after |-> StrategyOf(name, InsertAt(prices, at, outlier),
                                         weights)])

-----------------------------------------------------------------------------
(* MedianAggregator.aggregate on lists in any order, with any weights *)

MaxMedian == 4

MedianLists == ListsUpTo(StrategyQuotes, MaxMedian)

\* the _weights argument: undefined, a Map, a Map of zeros
MedianWeights ==
    WeightMaps \cup
    {[AlphaVantage |-> 0, Finnhub |-> 0, Reuters |-> 0, Unlisted |-> 0]}

callMedian ==
    /\ unitCall = <<>>
    /\ \E prices \in MedianLists, weights \in MedianWeights :
           unitRun("median", "MedianAggregator",
                   [prices |-> prices, weights |-> weights],
                   MedianAggregator(prices, weights))

-----------------------------------------------------------------------------
(* calculateConfidence on metrics and source counts *)

MaxSources == 12

\* spread in percent (exact), standard deviation in hundredths
MetricInputs ==
    {[standardDeviation |-> sd, spread |-> sp, variance |-> [num |-> 0, den |-> 1]] :
        sd \in {0, 50, 1000, 5000, 9999, 10000, 20000},
        sp \in {[num |-> 0, den |-> 1], [num |-> 1, den |-> 3],
                [num |-> 5, den |-> 1], [num |-> 10, den |-> 1],
                [num |-> 25, den |-> 1]}}

callCalculateConfidence ==
    /\ unitCall = <<>>
    /\ \E metrics \in MetricInputs, sourceCount \in 1..MaxSources :
           unitRun("calculateConfidence", "AggregationService",
                   [metrics |-> metrics, sourceCount |-> sourceCount],
                   calculateConfidence(metrics, sourceCount))

-----------------------------------------------------------------------------
(* OracleScheduler.executeUpdate: fetch, commit, publish, with the data *)

\* at most this many executeUpdate() calls are modelled
MaxUpdates == 2

\* asset identifiers as sequences of UTF-16 code units: TSLA, AAPL, BTCUSDT
AssetIds ==
    {<<84, 83, 76, 65>>, <<65, 65, 80, 76>>, <<66, 84, 67, 85, 83, 68, 84>>}

\* 32-bit integers are kept as two 16-bit halves [hi, lo] of the unsigned value
\* hash = ((hash << 5) - hash) + char; hash = hash & hash
HashStep(hash, char) ==
    LET low == hash.lo * 31 + char
    IN  [hi |-> (hash.hi * 31 + low \div 65536) % 65536, lo |-> low % 65536]

\* Math.abs of the signed 32-bit value
Abs32(x) ==
    IF x.hi < 32768 THEN x
    ELSE [hi |-> 65535 - x.hi + (IF x.lo = 0 THEN 1 ELSE 0),
          lo |-> (65536 - x.lo) % 65536]

RECURSIVE assetIdHash(_, _)
\* the loop of assetIdToInt
assetIdHash(hash, chars) ==
    IF chars = <<>> THEN hash
    ELSE assetIdHash(HashStep(hash, Head(chars)), Tail(chars))

\* BigInt(x): a whole number becomes a bigint, anything else is a RangeError
BigInt(x) ==
    IF isFinite(x) THEN [error |-> "", value |-> <<[bigint |-> x.v]>>]
    ELSE Throws("RangeError")

assetIdToInt(assetId) ==
    [bigint |-> Abs32(assetIdHash([hi |-> 0, lo |-> 0], assetId))]

\* generateCommit(price, timestamp, assetId) once buildPoseidon() resolved:
\* the Poseidon hash of the three inputs, as a hexadecimal string
generateCommit(price, timestamp, assetId) ==
    IF BigInt(price).error # "" \/ BigInt(timestamp).error # ""
      THEN Throws("RangeError")
      ELSE Returns([poseidon |-> <<BigInt(price).value[1],
                                   BigInt(timestamp).value[1],
                                   assetIdToInt(assetId)>>])

\* what fetchPrice() can resolve with: Math.round gives a whole number or NaN
PriceDatas ==
    {[price |-> p, timestamp |-> Fin(t), assetId |-> a] :
        p \in {Fin(1502500000), Fin(1510000000), NaN},
        t \in {1700000000},
        a \in AssetIds}

\* what publishToOracle() can resolve with
PublishResults ==
    {[txHash |-> "0000", success |-> TRUE],
     [txHash |-> "", success |-> FALSE]}

\* the locals of a call that has just begun
NewUpdate ==
    [step |-> "fetch", priceData |-> <<>>, commit |-> <<>>,
     calls |-> <<[fn |-> "fetchPrice", args |-> <<>>]>>,
     published |-> <<>>, returned |-> <<>>, thrown |-> <<>>]

uSet(i, c) ==
    /\ updates' = [updates EXCEPT ![i] = c]
    /\ UNCHANGED uOthers

\* executeUpdate() is called: it runs up to `await fetchPrice()`
uExecuteUpdate ==
    /\ Len(updates) < MaxUpdates
    /\ updates' = Append(updates, NewUpdate)
    /\ lastOp' = "executeUpdate"
    /\ UNCHANGED uOthers

\* the catch block: log, rethrow
uThrow(i, message) ==
    uSet(i, [updates[i] EXCEPT !.step = "thrown", !.thrown = <<message>>])

\* fetchPrice() resolves: the cycle goes on to `await generateCommit(...)`
uFetchResolves ==
    /\ \E i \in 1..Len(updates), priceData \in PriceDatas :
          /\ updates[i].step = "fetch"
          /\ uSet(i, [updates[i] EXCEPT
                        !.step = "commit",
                        !.priceData = <<priceData>>,
                        !.calls = Append(@,
                            [fn |-> "generateCommit",
                             args |-> <<priceData.price, priceData.timestamp,
                                        priceData.assetId>>])])
    /\ lastOp' = "uFetchResolves"

uFetchRejects ==
    /\ \E i \in 1..Len(updates) :
          /\ updates[i].step = "fetch"
          /\ uThrow(i, "Both price APIs failed")
    /\ lastOp' = "uFetchRejects"

\* publish parameters built from another commitment
PublishParams_NoCommit(priceData, commit) ==
    [assetId |-> priceData.assetId,
     price |-> BigInt(priceData.price).value[1],
     timestamp |-> BigInt(priceData.timestamp).value[1],
     commit |-> [poseidon |-> <<>>]]

\* the publish parameters of step 3
PublishParams(priceData, commit) ==
    [assetId |-> priceData.assetId,
     price |-> BigInt(priceData.price).value[1],
     timestamp |-> BigInt(priceData.timestamp).value[1],
     commit |-> commit]

\* generateCommit settles: with a digest the cycle goes on to
\* `await publishToOracle(publishParams)`, with a RangeError it throws
uCommitSettles ==
    /\ \E i \in 1..Len(updates) :
          /\ updates[i].step = "commit"
          /\ LET args == updates[i].calls[2].args
                 commit == generateCommit(args[1], args[2], args[3])
                 priceData == updates[i].priceData[1]
             IN  IF commit.error # ""
                   THEN uThrow(i, commit.error)
                   ELSE uSet(i, [updates[i] EXCEPT
                          !.step = "publish",
                          !.commit = commit.value,
                          !.calls = Append(@,
                              [fn |-> "publishToOracle",
                               args |-> <<PublishParams(priceData,
                                                        commit.value[1])>>])])
    /\ lastOp' = "uCommitSettles"

\* buildPoseidon() rejects
uCommitRejects ==
    /\ \E i \in 1..Len(updates) :
          /\ updates[i].step = "commit"
          /\ uThrow(i, "buildPoseidon failed")
    /\ lastOp' = "uCommitRejects"

\* publishToOracle resolves: success returns the cycle's record,
\* success = false throws
uPublishResolves ==
    /\ \E i \in 1..Len(updates), result \in PublishResults :
          /\ updates[i].step = "publish"
          /\ LET priceData == updates[i].priceData[1]
                 c == [updates[i] EXCEPT !.published = <<result>>]
             IN  IF result.success
                   THEN uSet(i, [c EXCEPT
                          !.step = "returned",
                          !.returned = <<[txHash |-> result.txHash,
                                          price |-> priceData.price,
                                          timestamp |-> priceData.timestamp,
                                          assetId |-> priceData.assetId,
                                          commit |-> updates[i].commit[1]]>>])
                   ELSE uSet(i, [c EXCEPT
                          !.step = "thrown",
                          !.thrown = <<"Publish returned success=false">>])
    /\ lastOp' = "uPublishResolves"

uPublishRejects ==
    /\ \E i \in 1..Len(updates) :
          /\ updates[i].step = "publish"
          /\ uThrow(i, "publish failed")
    /\ lastOp' = "uPublishRejects"

NextUpdate ==
    \/ uExecuteUpdate
    \/ uFetchResolves
    \/ uFetchRejects
    \/ uCommitSettles
    \/ uCommitRejects
    \/ uPublishResolves
    \/ uPublishRejects

-----------------------------------------------------------------------------
(* PriceFetcher.fetchPrice: AlphaVantage, then Finnhub, each under retry *)

\* the calls of the retry that has just finished, with their provider
Tagged(provider, log) ==
    [k \in 1..Len(log) |->
        [provider |-> provider, ok |-> log[k].ok, val |-> log[k].val]]

fpFrame ==
    UNCHANGED <<svcVars, oVars, wsVars, aggVars, normVars, unitVars, uVars,
                pfVars>>

\* fetchPrice() is called: this.retry(() => this.fetchFromAlphaVantage())
fetchPrice ==
    /\ fpStep = "idle"
    /\ retryBegins("PriceFetcher")
    /\ fpStep' = "alphavantage"
    /\ UNCHANGED <<fpLog, fpResult>>
    /\ lastOp' = "fetchPrice"
    /\ fpFrame

\* `return await this.retry(...)`: the retry of either provider returned
fpReturns ==
    /\ fpStep \in {"alphavantage", "finnhub"}
    /\ rPc["PriceFetcher"] = "returned"
    /\ fpLog' = fpLog \o Tagged(fpStep, rLog["PriceFetcher"])
    /\ fpResult' = rResult["PriceFetcher"]
    /\ fpStep' = "returned"
    /\ UNCHANGED rVars
    /\ lastOp' = "fpReturns"
    /\ fpFrame

\* a fetchPrice that gives up when AlphaVantage failed
fpFallsBack_GivesUp ==
    /\ fpStep = "alphavantage"
    /\ rPc["PriceFetcher"] = "thrown"
    /\ fpLog' = fpLog \o Tagged(fpStep, rLog["PriceFetcher"])
    /\ fpResult' = <<"Both price APIs failed">>
    /\ fpStep' = "thrown"
    /\ UNCHANGED rVars
    /\ lastOp' = "fpFallsBack"
    /\ fpFrame

\* catch (alphaVantageError): warn, this.retry(() => this.fetchFromFinnhub())
fpFallsBack ==
    /\ fpStep = "alphavantage"
    /\ rPc["PriceFetcher"] = "thrown"
    /\ fpLog' = fpLog \o Tagged(fpStep, rLog["PriceFetcher"])
    /\ retryBegins("PriceFetcher")
    /\ fpStep' = "finnhub"
    /\ UNCHANGED fpResult
    /\ lastOp' = "fpFallsBack"
    /\ fpFrame

\* catch (finnhubError): throw new Error('Both price APIs failed. ...')
fpThrows ==
    /\ fpStep = "finnhub"
    /\ rPc["PriceFetcher"] = "thrown"
    /\ fpLog' = fpLog \o Tagged(fpStep, rLog["PriceFetcher"])
    /\ fpResult' = <<"Both price APIs failed">>
    /\ fpStep' = "thrown"
    /\ UNCHANGED rVars
    /\ lastOp' = "fpThrows"
    /\ fpFrame

\* the provider call in flight settles, the retry delay ends
fpProviderStep ==
    \/ \E v \in FnValues : fnResolves("PriceFetcher", v)
    \/ \E e \in FnErrors : fnRejects("PriceFetcher", e)
    \/ retryAgain("PriceFetcher")

NextFetchPrice ==
    \/ fetchPrice
    \/ fpReturns
    \/ fpFallsBack
    \/ fpThrows
    \/ fpProviderStep

-----------------------------------------------------------------------------
(* aggregate called again and again on one AggregationService *)

\* five recent quotes of sources without a configured weight
FiveQuotes ==
    <<Quote("AAPL", Fin(100), T0 - 1000, "ExchangeA"),
      Quote("AAPL", Fin(200), T0 - 1000, "ExchangeB"),
      Quote("AAPL", Fin(104), T0 - 1000, "ExchangeC"),
      Quote("AAPL", Fin(120), T0 - 1000, "ExchangeD"),
      Quote("AAPL", Fin(110), T0 - 1000, "ExchangeE")>>

\* trimmed mean with the default fraction and with others, the other methods
RepeatedCalls ==
    {Call("AAPL", FiveQuotes, Options(<<3>>, <<>>, meth, <<>>, <<>>)) :
        meth \in {<<>>, <<"median">>, <<"trimmed-mean">>}}
    \cup {Call("AAPL", FiveQuotes,
               Options(<<3>>, <<>>, <<"trimmed-mean">>, <<>>, <<t>>)) :
             t \in {0, 20, 40, 50}}
    \cup {Call("AAPL", FiveQuotes,
               Options(<<3>>, <<>>, <<>>, <<[ExchangeB |-> 0]>>, <<>>))}

callAggregateAgain ==
    /\ aggregationCount + aggregationErrors < MaxCalls
    /\ \E c \in RepeatedCalls : aggregateWith(c)

NextRepeated == callAggregateAgain \/ aggTick

-----------------------------------------------------------------------------
(* The arrays a call creates and writes.  A JavaScript array is an object:   *)
(* `arrays` is the sequence of the arrays that exist, an array is referred   *)
(* to by its index, and an operation that yields an array returns the        *)
(* arrays after it and the reference it yields.                              *)

NewArray(arrays, elements) ==
    [arrays |-> Append(arrays, elements), ref |-> Len(arrays) + 1]

\* the array itself instead of a copy of it
spread_Same(arrays, ref) == [arrays |-> arrays, ref |-> ref]

\* [...array]
spread(arrays, ref) == NewArray(arrays, arrays[ref])

\* array.sort((a, b) => a.price - b.price): sorts the array it is called on
sortInPlace(arrays, ref) ==
    [arrays |-> [arrays EXCEPT ![ref] = SortByPrice(@)], ref |-> ref]

\* prices.map(p => p.price); the number p.price is kept as [price |-> p.price]
mapPrice(arrays, ref) ==
    NewArray(arrays, [i \in 1..Len(arrays[ref]) |-> [price |-> arrays[ref][i].price]])

\* prices.filter(p => p.timestamp >= windowStart)
filterRecent(arrays, ref, windowStart) ==
    NewArray(arrays, recentOf(arrays[ref], windowStart))

\* sortedPrices.slice(trimCount, sortedPrices.length - trimCount)
slice(arrays, ref, from, to) == NewArray(arrays, SubSeq(arrays[ref], from + 1, to))

\* the arrays after aggregator.aggregate(prices, weights), prices a reference
arraysAfter(aggregator, arrays, prices) ==
    LET length == Len(arrays[prices])
    IN  CASE aggregator.class = "WeightedAverageAggregator" -> arrays
          [] aggregator.class = "MedianAggregator" ->
                IF length = 0 THEN arrays
                ELSE LET mapped == mapPrice(arrays, prices)
                     IN  sortInPlace(mapped.arrays, mapped.ref).arrays
          [] aggregator.class = "TrimmedMeanAggregator" ->
                IF length < 3 THEN arrays
                ELSE LET copy == spread(arrays, prices)
                         sortedPrices == sortInPlace(copy.arrays, copy.ref)
                         trimCount == (length * aggregator.trimPercentage) \div 100
                     IN  slice(sortedPrices.arrays, sortedPrices.ref,
                               trimCount, length - trimCount).arrays

\* aggregate(symbol, prices, options) with prices a reference: the arrays it
\* leaves, the array the cache holds for the symbol (<<>> = none written) and
\* the outcome
aggregateOn(arrays, st, symbol, prices, options, now) ==
    LET minSources == OrDefault(options.minSources, 3)
        method == OrDefault(options.method, "weighted-average")
        trimPercentage == OrDefault(options.trimPercentage, 20)
        invalid == validateInputs(symbol, arrays[prices], minSources)
        recentPrices ==
            filterRecent(arrays, prices, now - OrDefault(options.timeWindowMs, 30000))
        aggregator == aggregatorOf(st.aggregators, method, trimPercentage)
        after == arraysAfter(aggregator[1], recentPrices.arrays, recentPrices.ref)
        r == aggregateRecent(st, symbol, after[recentPrices.ref], options, now)
        cached == spread(after, recentPrices.ref)
    IN  IF invalid # ""
          THEN [arrays |-> arrays, cached |-> <<>>, r |-> Failed(st, invalid)]
        ELSE IF Len(recentPrices.arrays[recentPrices.ref]) < minSources
                \/ aggregator = <<>>
                \/ (method = "trimmed-mean" /\ trimPercentage # 20
                    /\ ~TrimPercentageOk(trimPercentage))
          THEN [arrays |-> recentPrices.arrays, cached |-> <<>>,
                r |-> aggregateRecent(st, symbol,
                                      recentPrices.arrays[recentPrices.ref],
                                      options, now)]
        ELSE IF r.out.error # ""
          THEN [arrays |-> after, cached |-> <<>>, r |-> r]
        ELSE [arrays |-> cached.arrays, cached |-> <<cached.ref>>, r |-> r]

RECURSIVE aggregateEntriesOn(_, _, _, _, _)
\* the loop of aggregateMultiple over a Map whose i-th entry holds array i
aggregateEntriesOn(acc, entries, i, options, now) ==
    IF i > Len(entries) THEN acc
    ELSE LET a == aggregateOn(acc.arrays, acc.st, entries[i].symbol, i,
                              options, now)
         IN  aggregateEntriesOn(
                 [arrays |-> a.arrays, st |-> a.r.st,
                  cached |-> IF a.cached = <<>> THEN acc.cached
                             ELSE MapSet(acc.cached, entries[i].symbol,
                                         a.cached[1])],
                 entries, i + 1, options, now)

aggregateMultipleOn(st, pricesBySymbol, options, now) ==
    aggregateEntriesOn(
        [arrays |-> [i \in 1..Len(pricesBySymbol) |-> pricesBySymbol[i].prices],
         st |-> st, cached |-> EmptyMap],
        pricesBySymbol, 1, options, now)

\* ---- the calls ----------------------------------------------------------

MaxArray == 4

\* one quote is older than the time window, the prices are in no order
ArrayPool ==
    {FiveQuotes[2], Recent100, Outside110, Recent104, Boundary102}

\* every list of up to MaxArray different quotes of the pool, in every order
ArrayLists ==
    {l \in UNION {[1..n -> ArrayPool] : n \in 0..MaxArray} :
        \A i, j \in DOMAIN l : i # j => l[i] # l[j]}

ArrayStrategies ==
    {Strategy("WeightedAverageAggregator", 0), Strategy("MedianAggregator", 0),
     Strategy("TrimmedMeanAggregator", 20), Strategy("TrimmedMeanAggregator", 40)}

ArrayMaps ==
    {<<Entry("AAPL", l), Entry("MSFT", <<Msft302, Msft300>>)>> :
        l \in {x \in ArrayLists : Len(x) >= 3}}

\* a strategy is handed the caller's array (array 1)
callStrategyOn ==
    /\ unitCall = <<>>
    /\ \E aggregator \in ArrayStrategies, prices \in ArrayLists :
           unitRun("strategy", aggregator.class,
                   [prices |-> <<prices>>, symbols |-> <<>>],
                   [arrays |-> arraysAfter(aggregator, <<prices>>, 1),
                    cached |-> EmptyMap, stored |-> EmptyMap])

\* the lists a store caches, by symbol
StoredLists(st) ==
    [symbol \in DOMAIN st.lastNormalized |-> st.heap[st.lastNormalized[symbol]]]

\* aggregate is handed the caller's array (array 1)
callAggregateOn ==
    /\ unitCall = <<>>
    /\ \E prices \in ArrayLists, meth \in KnownMethods :
          LET a == aggregateOn(<<prices>>, Store, "AAPL", 1,
                               Options(<<2>>, <<>>, <<meth>>, <<>>, <<>>), clock)
          IN  unitRun("aggregate", "AggregationService",
                      [prices |-> <<prices>>, symbols |-> <<"AAPL">>],
                      [arrays |-> a.arrays,
                       cached |-> IF a.cached = <<>> THEN EmptyMap
                                  ELSE MapSet(EmptyMap, "AAPL", a.cached[1]),
                       stored |-> StoredLists(a.r.st)])

\* aggregateMultiple is handed a Map of the caller's arrays
callAggregateMultipleOn ==
    /\ unitCall = <<>>
    /\ \E m \in ArrayMaps, meth \in KnownMethods :
          LET a == aggregateMultipleOn(Store, m,
                                       Options(<<2>>, <<>>, <<meth>>, <<>>, <<>>),
                                       clock)
          IN  unitRun("aggregateMultiple", "AggregationService",
                      [prices |-> [i \in 1..Len(m) |-> m[i].prices],
                       symbols |-> [i \in 1..Len(m) |-> m[i].symbol]],
                      [arrays |-> a.arrays, cached |-> a.cached,
                       stored |-> StoredLists(a.st)])

NextArrays == callStrategyOn \/ callAggregateOn \/ callAggregateMultipleOn

-----------------------------------------------------------------------------
(* Raw quotes normalized by the NormalizationService and handed to aggregate *)

RECURSIVE Join(_)
\* the string of a sequence of characters
Join(cs) == IF cs = <<>> THEN "" ELSE Head(cs) \o Join(Tail(cs))

\* the NormalizedPrice object of BaseNormalizer.normalize as aggregate reads
\* it: same fields, no weight property
AsQuote(normalized) ==
    [symbol |-> Join(normalized.symbol),
     price |-> Fin(normalized.price),
     timestamp |-> normalized.timestamp,
     originalTimestamp |-> normalized.originalTimestamp,
     source |-> normalized.source,
     metadata |-> normalized.metadata,
     weight |-> <<>>]

YahooSource == JsString(<<"Y","a","h","o","o"," ","F","i","n","a","n","c","e">>)
Aapl == JsString(<<"A","A","P","L">>)

\* raw quotes of AAPL as each provider names it, positive prices, timestamps
\* now and one second ago
RawOf(source, symbols) ==
    {RawPrice(sym, JsNumber(pr), JsNumber(ts), source) :
        sym \in symbols, pr \in {15000000, 15012345}, ts \in {T0, T0 - 1000}}

\* one raw quote of each provider
PipelineInputs ==
    {<<a, f, y>> : a \in RawOf(AlphaVantageSource, {Aapl, AaplUs}),
                   f \in RawOf(FinnhubSource, {Aapl, UsAapl}),
                   y \in RawOf(YahooSource, {Aapl})}

PipelineOptions ==
    {Options(<<>>, <<>>, <<>>, <<>>, <<>>), Options(<<2>>, <<>>, <<"median">>, <<>>, <<>>)}

\* normalizeMany(rawPrices), then aggregate('AAPL', the records it returned)
callPipeline ==
    /\ unitCall = <<>>
    /\ \E rawPrices \in PipelineInputs, options \in PipelineOptions :
          LET batch == normalizeMany(rawPrices)
              quotes == [i \in 1..Len(batch.value[1]) |-> AsQuote(batch.value[1][i])]
              r == aggregate(Store, "AAPL", quotes, options, clock)
          IN  /\ batch.raised = ""
              /\ unitRun("pipeline", "AggregationService",
                         [rawPrices |-> rawPrices, options |-> options],
                         [normalized |-> quotes, out |-> r.out])

-----------------------------------------------------------------------------
(* PriceFetcherService: fetchRawPrices and getRawPrices.  The providers are  *)
(* collaborators: the promise of a fetchPrices call resolves with a list or  *)
(* rejects, at any time.                                                     *)

MaxFetches == 3

\* this.providers after the constructor
Providers == <<"MockProvider">>

MockPrice(price) ==
    [symbol |-> "AAPL", price |-> price, timestamp |-> T0, source |-> "MockProvider"]

\* what a provider can resolve with
ProviderResults == {<<>>, <<MockPrice(150)>>, <<MockPrice(151), MockPrice(150)>>}

Pending == <<>>
Resolved(list) == <<[ok |-> TRUE, list |-> list]>>
Rejected == <<[ok |-> FALSE, list |-> <<>>]>>

RECURSIVE flat(_)
\* results.flat()
flat(results) ==
    IF results = <<>> THEN <<>> ELSE Head(results) \o flat(Tail(results))

pfFrame(op) == lastOp' = op /\ UNCHANGED pfOthers

\* fetchRawPrices() up to its await: one fetchPrices call per provider
fetchRawPrices ==
    /\ Len(fetches) < MaxFetches
    /\ fetches' = Append(fetches, [promises |-> [p \in DOMAIN Providers |-> Pending],
                                   state |-> "pending", value |-> <<>>])
    /\ UNCHANGED <<storedRawPrices, seenRawPrices>>
    /\ pfFrame("fetchRawPrices")

\* a provider's promise resolves; when it was the last one of a call that is
\* still waiting, Promise.all resolves and the call stores and returns the
\* flattened results
pfProviderResolves ==
    /\ \E i \in DOMAIN fetches, p \in DOMAIN Providers, list \in ProviderResults :
          /\ fetches[i].promises[p] = Pending
          /\ LET promises == [fetches[i].promises EXCEPT ![p] = Resolved(list)]
                 done == /\ fetches[i].state = "pending"
                         /\ \A q \in DOMAIN promises : promises[q] # Pending
                 results == [q \in DOMAIN promises |-> promises[q][1].list]
             IN  IF done
                   THEN /\ storedRawPrices' = flat(results)
                        /\ fetches' = [fetches EXCEPT ![i] =
                                          [promises |-> promises, state |-> "returned",
                                           value |-> <<flat(results)>>]]
                   ELSE /\ storedRawPrices' = storedRawPrices
                        /\ fetches' = [fetches EXCEPT ![i].promises = promises]
    /\ UNCHANGED seenRawPrices
    /\ pfFrame("providerResolves")

\* a provider's promise rejects: Promise.all rejects, and so does the call
pfProviderRejects ==
    /\ \E i \in DOMAIN fetches, p \in DOMAIN Providers :
          /\ fetches[i].promises[p] = Pending
          /\ fetches' = [fetches EXCEPT
                            ![i].promises[p] = Rejected,
                            ![i].state = IF @ = "pending" THEN "rejected" ELSE @]
    /\ UNCHANGED <<storedRawPrices, seenRawPrices>>
    /\ pfFrame("providerRejects")

getRawPrices ==
    /\ seenRawPrices' = <<storedRawPrices>>
    /\ UNCHANGED <<storedRawPrices, fetches>>
    /\ pfFrame("getRawPrices")

NextPriceFetcher ==
    fetchRawPrices \/ pfProviderResolves \/ pfProviderRejects \/ getRawPrices

-----------------------------------------------------------------------------
(* Specifications.  Each one runs one part of the system from its initial
   state; the parts it does not run stay as constructed, unconfigured. *)

OracleIdle == InitOracle /\ intervalSeconds = <<>> /\ cronExpression = <<>>
UnitIdle == unitCall = <<>> /\ unitOutcome = <<>>
UpdatesIdle == updates = <<>>
FetchPriceIdle == fpStep = "idle" /\ fpLog = <<>> /\ fpResult = <<>>
PriceFetcherIdle ==
    storedRawPrices = <<>> /\ fetches = <<>> /\ seenRawPrices = <<>>
BatchIdle == batchCall = <<>> /\ batchOutcome = <<>>
Registered == normalizers = DefaultRegistry
NormIdle == Registered /\ normCall = <<>> /\ normOutcome = <<>> /\ BatchIdle
WsIdle == InitWs /\ wsUrl = <<>>

\* The two schedulers
InitSched ==
    /\ lastOp = "init"
    /\ InitSvc
    /\ InitOracle
    /\ InitRetry
    /\ WsIdle
    /\ InitAgg
    /\ NormIdle
    /\ UnitIdle
    /\ PriceFetcherIdle
    /\ FetchPriceIdle
    /\ UpdatesIdle

NextSched == NextSvc \/ NextOracle

SpecSched == InitSched /\ [][NextSched]_vars

\* The retry wrappers
InitRetryOnly ==
    /\ lastOp = "init"
    /\ InitSvc
    /\ OracleIdle
    /\ InitRetry
    /\ WsIdle
    /\ InitAgg
    /\ NormIdle
    /\ UnitIdle
    /\ PriceFetcherIdle
    /\ FetchPriceIdle
    /\ UpdatesIdle

SpecRetry == InitRetryOnly /\ [][NextRetry]_vars

\* The streaming connection
InitWsOnly ==
    /\ lastOp = "init"
    /\ InitSvc
    /\ OracleIdle
    /\ InitRetry
    /\ InitWs
    /\ InitAgg
    /\ NormIdle
    /\ UnitIdle
    /\ PriceFetcherIdle
    /\ FetchPriceIdle
    /\ UpdatesIdle

SpecWs == InitWsOnly /\ [][NextWs]_vars

\* The message stream of the first connection
SpecWsMsg == InitWsOnly /\ [][NextWsMsg]_vars

\* The parts other than the aggregation engine, as constructed
OthersIdle ==
    /\ InitSvc
    /\ OracleIdle
    /\ InitRetry
    /\ WsIdle
    /\ NormIdle
    /\ UnitIdle
    /\ PriceFetcherIdle
    /\ FetchPriceIdle
    /\ UpdatesIdle

\* aggregate as a function of its arguments, at time T0 on an empty cache
InitAggregate ==
    /\ lastOp = "init"
    /\ OthersIdle
    /\ clock = T0
    /\ heap = <<>>
    /\ lastAggregated = EmptyMap
    /\ lastNormalized = EmptyMap
    /\ updatedAt = 0
    /\ aggregationCount = 0
    /\ aggregationErrors = 0
    /\ aggregators = NewAggregators
    /\ aggCall \in {<<c>> : c \in AggInputs}
    /\ aggOutcome = <<>>
    /\ lastOk = EmptyMap
    /\ multiCall = <<>>
    /\ multiOutcome = <<>>
    /\ snapshot = <<>>
    /\ snapshotSeen = <<>>

SpecAggregate == InitAggregate /\ [][aggregateRun]_vars

\* The aggregation engine and its cache over a sequence of calls
InitCache ==
    /\ lastOp = "init"
    /\ OthersIdle
    /\ InitAgg

SpecCache == InitCache /\ [][NextCache]_vars

\* normalize as a function of the raw record
InitNormalize ==
    /\ lastOp = "init"
    /\ InitSvc
    /\ OracleIdle
    /\ InitRetry
    /\ WsIdle
    /\ InitAgg
    /\ Registered
    /\ normCall \in {<<r>> : r \in RawInputs}
    /\ normOutcome = <<>>
    /\ BatchIdle
    /\ UnitIdle
    /\ PriceFetcherIdle
    /\ FetchPriceIdle
    /\ UpdatesIdle

SpecNormalize == InitNormalize /\ [][normalizeRun]_vars

\* The batch operations of the normalization service
InitBatch ==
    /\ lastOp = "init"
    /\ OthersIdle
    /\ InitAgg

SpecBatch == InitBatch /\ [][NextBatch]_vars

\* Everything as constructed, no call made yet
InitIdle ==
    /\ lastOp = "init"
    /\ OthersIdle
    /\ InitAgg

\* The symbol and price rewriting of the normalizers
SpecRewrite == InitIdle /\ [][NextRewrite]_vars

\* The registry of normalizers and the lookup in it
SpecRegistry == InitIdle /\ [][NextRegistry]_vars

\* the service as constructed, about to run one of the calls
InitCallOf(calls) ==
    /\ lastOp = "init"
    /\ OthersIdle
    /\ clock = T0
    /\ heap = <<>>
    /\ lastAggregated = EmptyMap
    /\ lastNormalized = EmptyMap
    /\ updatedAt = 0
    /\ aggregationCount = 0
    /\ aggregationErrors = 0
    /\ aggregators = NewAggregators
    /\ aggCall \in {<<c>> : c \in calls}
    /\ aggOutcome = <<>>
    /\ lastOk = EmptyMap
    /\ multiCall = <<>>
    /\ multiOutcome = <<>>
    /\ snapshot = <<>>
    /\ snapshotSeen = <<>>

\* aggregate on quotes that carry weights and on weight overrides
SpecWeights == InitCallOf(WeightCalls) /\ [][aggregateRun]_vars

\* TrimmedMeanAggregator on its own
SpecTrimmed == InitIdle /\ [][callTrimmedMean]_vars

\* The trim fraction, given to the constructor and given to aggregate
SpecTrim == InitCallOf(TrimCalls) /\ [][NextTrim]_vars

\* The median and the trimmed mean, without and with one outlier
SpecOutlier == InitIdle /\ [][callWithOutlier]_vars

\* MedianAggregator on its own
SpecMedian == InitIdle /\ [][callMedian]_vars

\* calculateConfidence on its own
SpecConfidence == InitIdle /\ [][callCalculateConfidence]_vars

\* executeUpdate cycles with their data
SpecUpdate == InitIdle /\ [][NextUpdate]_vars

\* fetchPrice over the retry wrapper of PriceFetcher
InitFetchPrice ==
    /\ lastOp = "init"
    /\ InitSvc
    /\ OracleIdle
    /\ InitRetry
    /\ WsIdle
    /\ InitAgg
    /\ NormIdle
    /\ UnitIdle
    /\ PriceFetcherIdle
    /\ UpdatesIdle
    /\ FetchPriceIdle

SpecFetchPrice == InitFetchPrice /\ [][NextFetchPrice]_vars

\* aggregate called repeatedly, with the clock advancing
SpecRepeated == InitCache /\ [][NextRepeated]_vars

\* the strategies, aggregate and aggregateMultiple on the caller's arrays
SpecArrays == InitIdle /\ [][NextArrays]_vars

\* normalization followed by aggregation
SpecPipeline == InitIdle /\ [][callPipeline]_vars

\* overlapping calls of fetchRawPrices
SpecPriceFetcher == InitIdle /\ [][NextPriceFetcher]_vars

-----------------------------------------------------------------------------
(* Properties of the schedulers *)

IntervalMode == IF intervalSeconds = <<>> THEN FALSE ELSE intervalSeconds[1] > 0
CronConfigured == cronExpression # <<>>

\* C1: cycles never overlap: a timer tick that fires while a cycle is still
\* in flight starts no new one, so right after any tick at most one
\* executeFetch (resp. executeUpdate) is in flight.
C1_NoOverlap ==
    /\ lastOp = "svcTick" => svcInFlight <= 1
    /\ lastOp = "oTick" => BagCardinality(oCycles) <= 1

\* C2: once stop has returned (the timer fields are null), no step begins a
\* cycle except a call of start; cycles already in flight are left alone.
C2_NoCycleAfterStop ==
    [][ /\ (intervalId = NoTimer /\ svcInFlight' > svcInFlight)
            => lastOp' = "startScheduler"
        /\ (cronJob = NoTimer /\ oIntervalId = NoTimer
              /\ BagCardinality(oCycles') > BagCardinality(oCycles))
            => lastOp' = "oStart" ]_vars

C2_Witness ==
    /\ lastOp = "stopScheduler"
    /\ intervalId = NoTimer
    /\ svcInFlight > 0
    /\ cronJob = NoTimer /\ oIntervalId = NoTimer
    /\ BagCardinality(oCycles) > 0

\* C3: a failing cycle is contained: no rejection escapes the timer callback
\* unhandled and the scheduler's process stays alive.
C3_FailureContained == ~unhandled /\ oProcess = "alive"

\* C4: start while a timer is live changes nothing (no immediate cycle, no
\* second timer), and at most one timer exists per scheduler.
C4_SecondStartNoOp ==
    /\ [][ /\ (lastOp' = "startScheduler" /\ svcTimers # {})
               => UNCHANGED svcVars
           /\ (lastOp' = "oStart" /\ oTimers # {})
               => UNCHANGED oVars ]_vars
    /\ [](Cardinality(svcTimers) <= 1 /\ Cardinality(oTimers) <= 1)

C4_Witness ==
    /\ lastOp = "startScheduler"
    /\ svcTimers # {}
    /\ svcInFlight = 0

\* C5: start on a stopped scheduler begins a cycle in the same step, with no
\* tick due yet, and arms one timer; every tick begins one more cycle, and a
\* running scheduler always has its timer live.
C5_ImmediateThenPeriodic ==
    /\ [][ /\ (lastOp' = "startScheduler" /\ svcTimers = {})
               => /\ svcInFlight' = svcInFlight + 1
                  /\ svcDue' = {}
                  /\ svcTimers' = {intervalId'}
           /\ lastOp' = "svcTick" => svcInFlight' = svcInFlight + 1
           /\ (lastOp' = "oStart" /\ oTimers = {}
                 /\ (IntervalMode \/ CronConfigured))
               => /\ oCycles' = oCycles (+) SetToBag({[cause |-> "start",
                                                         phase |-> "fetch"]})
                  /\ oDue' = {}
                  /\ Cardinality(oTimers') = 1
           /\ lastOp' = "oTick"
               => BagCardinality(oCycles') = BagCardinality(oCycles) + 1 ]_vars
    /\ [](isRunning => intervalId \in svcTimers)

C5_Witness ==
    /\ lastOp = "svcTick"
    /\ isRunning
    /\ svcInFlight = 2

\* C6: isSchedulerRunning is false initially, true after startScheduler,
\* false after stopScheduler, and true exactly when the interval timer
\* exists; stopScheduler on a stopped scheduler changes nothing; a stopped
\* scheduler can be started again.
C6_RunningFlag ==
    /\ isSchedulerRunning = FALSE
    /\ [](/\ isSchedulerRunning <=> intervalId # NoTimer
          /\ isSchedulerRunning <=> svcTimers # {}
          /\ svcTimers \subseteq {intervalId})
    /\ [][ /\ lastOp' = "startScheduler" => isSchedulerRunning'
           /\ lastOp' = "stopScheduler" => ~isSchedulerRunning'
           /\ (lastOp' = "stopScheduler" /\ ~isSchedulerRunning)
               => UNCHANGED svcVars
           /\ (lastOp' = "startScheduler" /\ ~isSchedulerRunning)
               => (svcInFlight' = svcInFlight + 1 /\ svcTimers' # {}) ]_vars

C6_Witness ==
    /\ lastOp = "stopScheduler"
    /\ ~isSchedulerRunning
    /\ svcInFlight = 1
    /\ svcTimers = {}

\* C7: cronJob and intervalId are never both set; with a positive interval
\* configured the cron job is never created; with neither configured start
\* schedules nothing and runs no cycle.
C7_OneMode ==
    /\ ~(cronJob # NoTimer /\ oIntervalId # NoTimer)
    /\ IntervalMode => (cronJob = NoTimer /\ \A t \in oTimers : t.kind = "interval")
    /\ (~IntervalMode /\ ~CronConfigured)
        => (cronJob = NoTimer /\ oIntervalId = NoTimer
              /\ oTimers = {} /\ oCycles = EmptyBag)

C7_Witness ==
    /\ lastOp = "oStart"
    /\ IntervalMode /\ CronConfigured
    /\ oIntervalId # NoTimer
    /\ BagCardinality(oCycles) > 0

-----------------------------------------------------------------------------
(* Properties of the retry wrapper *)

\* C8 as claimed: with 3 configured, fn is called at most 3 times in total
\* and the error is propagated after 3 failed attempts.
C8_AtMostMaxAttempts ==
    \A w \in Wrappers :
        /\ rCalls[w] <= maxRetries[w]
        /\ rPc[w] = "thrown" => Len(rLog[w]) = maxRetries[w]

\* C8 (amended): fn is called at most maxRetries + 1 = 4 times in total (one
\* attempt plus maxRetries retries); retry returns the value of the first
\* successful attempt, which is the last call made; it throws only after
\* maxRetries + 1 failed attempts, and throws the error of the last one.
C8_BoundedRetry ==
    \A w \in Wrappers :
        /\ rCalls[w] <= maxRetries[w] + 1
        /\ Len(rLog[w]) <= rCalls[w]
        /\ \A k \in 1..Len(rLog[w]) : rLog[w][k].ok => k = Len(rLog[w])
        /\ rPc[w] = "returned"
            => /\ Len(rLog[w]) = rCalls[w]
               /\ rLog[w][rCalls[w]].ok
               /\ rResult[w] = <<rLog[w][rCalls[w]].val>>
        /\ rPc[w] = "thrown"
            => /\ rCalls[w] = maxRetries[w] + 1
               /\ Len(rLog[w]) = rCalls[w]
               /\ \A k \in 1..Len(rLog[w]) : ~rLog[w][k].ok
               /\ rResult[w] = <<rLog[w][rCalls[w]].val>>
        /\ rPc[w] \in {"calling", "sleeping"} => rResult[w] = <<>>

C8_Witness ==
    /\ rPc["PriceFetcher"] = "thrown"
    /\ rLog["PriceFetcher"][1].val # rResult["PriceFetcher"][1]
    /\ rPc["SorobanPublisher"] = "returned"
    /\ rCalls["SorobanPublisher"] = 3

-----------------------------------------------------------------------------
(* Properties of the streaming connection *)

\* C9: destroy is terminal: once isDestroyed is set it stays set and no step
\* creates a WebSocket, whether a close event or a backoff timer comes later.
C9_DestroyTerminal ==
    [][ isDestroyed => (isDestroyed' /\ Len(sockets') = Len(sockets)) ]_vars

C9_Witness ==
    /\ isDestroyed
    /\ lastOp = "wsTimerFires"
    /\ Len(sockets) >= 2
    /\ \A k \in 1..Len(sockets) : sockets[k] = "closed"

\* the delays of the five reconnection attempts, in milliseconds
BackoffTable == <<2000, 4000, 8000, 16000, 32000>>

\* C10: a close schedules the k-th consecutive attempt (k = attempts used
\* since the last open, plus one) 2^k seconds later while k <= 5, and
\* schedules nothing once 5 are used; reconnectAttempts stays within 0..5.
C10_BoundedBackoff ==
    /\ [](reconnectAttempts \in 0..5)
    /\ [](\A i \in 1..Len(reconnTimers) :
             \E k \in 1..reconnectAttempts : reconnTimers[i] = BackoffTable[k])
    /\ [][ (lastOp' = "wsClose" /\ ~isDestroyed)
             => IF reconnectAttempts < 5
                  THEN /\ reconnectAttempts' = reconnectAttempts + 1
                       /\ reconnTimers' =
                            Append(reconnTimers, BackoffTable[reconnectAttempts'])
                  ELSE UNCHANGED <<reconnectAttempts, reconnTimers>> ]_vars

C10_Witness ==
    /\ lastOp = "wsClose"
    /\ ~isDestroyed
    /\ reconnectAttempts = 5
    /\ reconnTimers = <<>>
    /\ Len(sockets) = 6

\* C11: a successful open resets the reconnection attempt count to 0, so while
\* a connection is open no attempt is counted, and when an open connection of
\* a running service drops, the close handler counts attempt 1 and schedules
\* the first delay of the backoff table (2 s), with all maxReconnectAttempts
\* attempts available again, however many were used before the open.
C11_OpenResets ==
    /\ [](\A k \in 1..Len(sockets) :
            sockets[k] = "open" => reconnectAttempts = 0)
    /\ [][ (/\ lastOp' = "wsClose"
            /\ ~isDestroyed
            /\ \E k \in 1..Len(sockets) :
                  sockets[k] = "open" /\ sockets'[k] = "closed")
           => (/\ reconnectAttempts' = 1
               /\ maxReconnectAttempts - reconnectAttempts = maxReconnectAttempts
               /\ reconnTimers' = Append(reconnTimers, BackoffTable[1])) ]_vars

\* two attempts were used to get the third connection, which opened and then
\* dropped: the attempt counted for it is the first one again
C11_Witness ==
    /\ lastOp = "wsClose"
    /\ ~isDestroyed
    /\ Len(sockets) = 3
    /\ \A k \in 1..3 : sockets[k] = "closed"
    /\ reconnectAttempts = 1
    /\ reconnTimers = <<BackoffTable[1]>>

-----------------------------------------------------------------------------
(* Properties of the message stream *)

\* the payload parses as JSON and has a string symbol, a positive numeric
\* price, a string source and an ISO-8601 timestamp
WellFormed(data) ==
    /\ JSONparse(data) # <<>>
    /\ LET o == JSONparse(data)[1]
       IN  /\ o.symbol.t = "string"
           /\ o.price.t = "number" /\ o.price.n > 0
           /\ o.source.t = "string"
           /\ o.timestamp.t = "string" /\ o.timestamp.s = "2026-01-27T13:00:00Z"

EmitsFor(m) == {i \in 1..Len(priceReceived) : priceReceived[i].msg = m}
ErrorsFor(m) == {i \in 1..Len(wsErrorLog) : wsErrorLog[i].msg = m}

\* C12: for every message received, once its handler has finished,
\* 'price.received' has been emitted exactly once (carrying the payload) if
\* the payload is well formed and never otherwise, and a malformed message has
\* one logged error; nothing is emitted before the handler finishes; and the
\* handler leaves the connection, the attempt count and the pending
\* reconnections alone, so the connection stays usable for later messages.
C12_MessageHandling ==
    /\ [](\A m \in 1..Len(wsMsgs) :
            LET data == wsMsgs[m].data
            IN  /\ ~wsMsgs[m].done => EmitsFor(m) = {} /\ ErrorsFor(m) = {}
                /\ (wsMsgs[m].done /\ WellFormed(data)) =>
                      /\ Cardinality(EmitsFor(m)) = 1
                      /\ ErrorsFor(m) = {}
                      /\ \A i \in EmitsFor(m) :
                            priceReceived[i].dto = JSONparse(data)[1]
                /\ (wsMsgs[m].done /\ ~WellFormed(data)) =>
                      /\ EmitsFor(m) = {}
                      /\ Cardinality(ErrorsFor(m)) = 1)
    /\ [][ lastOp' \in {"wsMessage", "wsValidated"} =>
             UNCHANGED <<sockets, ws, isDestroyed, reconnectAttempts,
                         reconnTimers>> ]_vars

\* a message with a negative price and no source was dropped, the connection
\* is still open, and the well-formed message after it was emitted
C12_Witness ==
    /\ Len(wsMsgs) = 2
    /\ wsMsgs[1].data = NegativePriceText /\ wsMsgs[1].done
    /\ wsMsgs[2].data = ValidText /\ wsMsgs[2].done
    /\ sockets[wsMsgs[2].socket] = "open"
    /\ Len(priceReceived) = 1 /\ priceReceived[1].msg = 2
    /\ wsErrorLog = <<[msg |-> 1, text |-> "Validation failed"]>>

-----------------------------------------------------------------------------
(* Properties of the aggregation engine and its cache *)

\* the symbols of the last aggregateMultiple call
MultiSymbols == {multiCall[1][i].symbol : i \in 1..Len(multiCall[1])}
MultiPrices(sym) ==
    LET i == CHOOSE j \in 1..Len(multiCall[1]) : multiCall[1][j].symbol = sym
    IN  multiCall[1][i].prices

\* what aggregate alone does with one entry of that call, at the same time
AloneOutcome(sym) == aggregate(Store, sym, MultiPrices(sym), Min2, clock).out

\* C13: aggregateMultiple never raises; the map it returns holds exactly the
\* symbols whose own aggregate call succeeds, each with the consensus of that
\* call; a symbol whose aggregation fails is left out, wherever it stands in
\* the input.
C13_MultipleIsolatesFailures ==
    (lastOp = "aggregateMultiple") =>
        LET results == multiOutcome[1].results
        IN  /\ multiOutcome[1].error = ""
            /\ DOMAIN results = {sym \in MultiSymbols : AloneOutcome(sym).error = ""}
            /\ \A sym \in DOMAIN results :
                  heap[results[sym]] = AloneOutcome(sym).result[1]

\* the first symbol failed (empty list) and the one after it was aggregated
C13_Witness ==
    /\ lastOp = "aggregateMultiple"
    /\ multiCall[1] = <<Entry("MSFT", <<>>),
                        Entry("AAPL", <<Recent100, Recent104>>)>>
    /\ multiOutcome[1].error = ""
    /\ DOMAIN multiOutcome[1].results = {"AAPL"}
    /\ heap[multiOutcome[1].results["AAPL"]].price = [num |-> 2748, den |-> 27]

-----------------------------------------------------------------------------
(* Properties of aggregate as a function of its arguments *)

Ran == aggOutcome # <<>>
TheCall == aggCall[1]
TheOutcome == aggOutcome[1]
TheResult == aggOutcome[1].result[1]
ReqMinSources == OrDefault(TheCall.options.minSources, 3)
ReqMethod == OrDefault(TheCall.options.method, "weighted-average")

\* every check of the validation passes
ValidationPasses ==
    /\ Trim(TheCall.symbol) # ""
    /\ Len(TheCall.prices) > 0
    /\ ReqMinSources >= 1
    /\ Len(TheCall.prices) >= ReqMinSources
    /\ \A i \in 1..Len(TheCall.prices) :
          /\ TheCall.prices[i].symbol = TheCall.symbol
          /\ TheCall.prices[i].price.k = "finite"
          /\ TheCall.prices[i].price.v > 0

\* the supplied quotes with timestamp >= now - windowMillis, in order
Survivors ==
    SelectSeq(TheCall.prices,
              LAMBDA p : p.timestamp
                           >= clock - OrDefault(TheCall.options.timeWindowMs, 30000))

EmptyStore ==
    [heap |-> <<>>, lastAggregated |-> EmptyMap, lastNormalized |-> EmptyMap,
     updatedAt |-> 0, aggregationCount |-> 0, aggregationErrors |-> 0,
     aggregators |-> NewAggregators, lastOk |-> EmptyMap]

\* the consensus of the survivors when nothing else is supplied
SurvivorsAlone ==
    aggregate(EmptyStore, TheCall.symbol, Survivors, TheCall.options, clock).out

\* C16 as stated: when validation passes, aggregate succeeds if at least
\* minSources quotes have timestamp >= now - windowMillis and fails with
\* 'Insufficient recent sources' otherwise; when it succeeds, the quotes used
\* are exactly those, and the consensus (price, metrics, sourceCount, sources,
\* window bounds) is the one obtained from them alone.
C16_WindowFilter ==
    (Ran /\ ValidationPasses) =>
        IF Len(Survivors) >= ReqMinSources
          THEN /\ TheOutcome.error = ""
               /\ TheOutcome.recentPrices = Survivors
               /\ TheOutcome.result = SurvivorsAlone.result
          ELSE TheOutcome.error = "Insufficient recent sources"

StrategyErrors ==
    {"Unknown aggregation method", "Trim percentage must be between 0 and 0.5",
     "Total weight cannot be zero"}

\* C16 amended: when validation passes, aggregate fails with 'Insufficient
\* recent sources' exactly when fewer than minSources quotes have timestamp
\* >= now - windowMillis; otherwise it succeeds, unless the strategy rejects
\* the call (unknown method, invalid trim fraction, zero total weight), which
\* cannot happen for weighted-average or median with the registry weights;
\* when it succeeds, the quotes used are exactly the survivors and the
\* consensus is the one obtained from them alone.
C16_WindowFilterThenStrategy ==
    (Ran /\ ValidationPasses) =>
        /\ (TheOutcome.error = "Insufficient recent sources")
              <=> (Len(Survivors) < ReqMinSources)
        /\ Len(Survivors) >= ReqMinSources =>
              /\ TheOutcome.error \in {""} \cup StrategyErrors
              /\ (/\ ReqMethod \in {"weighted-average", "median"}
                  /\ TheCall.options.customWeights = <<>>)
                    => TheOutcome.error = ""
        /\ TheOutcome.error = "" =>
              /\ TheOutcome.recentPrices = Survivors
              /\ TheOutcome.result = SurvivorsAlone.result

\* of three quotes the one a millisecond too old is left out and the one
\* exactly windowMillis old is used
C16_Witness ==
    /\ Ran
    /\ TheCall.prices = <<Outside110, Recent104, Boundary102>>
    /\ TheOutcome.error = ""
    /\ TheOutcome.recentPrices = <<Recent104, Boundary102>>
    /\ TheResult.metrics.sourceCount = 2
    /\ TheResult.startTimestamp = T0 - 30000
    /\ TheResult.sources = <<"Finnhub", "AlphaVantage">>

\* C17: every consensus aggregate returns has
\* startTimestamp <= endTimestamp <= computedAt.
C17_TimestampOrder ==
    (Ran /\ TheOutcome.error = "") =>
        /\ TheResult.startTimestamp <= TheResult.endTimestamp
        /\ TheResult.endTimestamp <= TheResult.computedAt

\* C18: every consensus aggregate returns has metrics.sourceCount equal to
\* the number of quotes used, which is at least minSources; every quote used
\* has the requested symbol; and sources holds the source of every quote used,
\* each exactly once.
C18_SourceCount ==
    (Ran /\ TheOutcome.error = "") =>
        LET used == TheOutcome.recentPrices
            sources == TheResult.sources
        IN  /\ TheResult.metrics.sourceCount = Len(used)
            /\ Len(used) >= ReqMinSources
            /\ \A i \in 1..Len(used) : used[i].symbol = TheCall.symbol
            /\ {sources[i] : i \in 1..Len(sources)}
                  = {used[i].source : i \in 1..Len(used)}
            /\ \A i, j \in 1..Len(sources) : sources[i] = sources[j] => i = j

\* three quotes were used, two of them of the same source, listed once
C18_Witness ==
    /\ Ran
    /\ TheOutcome.error = ""
    /\ TheOutcome.recentPrices = <<Recent100, Recent104, Boundary102>>
    /\ TheResult.metrics.sourceCount = 3
    /\ TheResult.sources = <<"AlphaVantage", "Finnhub">>
    /\ ReqMinSources = 3

\* the first check of the validation that the call violates, "" if none
FirstViolation ==
    LET quotes == TheCall.prices
    IN  CASE Trim(TheCall.symbol) = "" -> "Symbol cannot be empty"
          [] Trim(TheCall.symbol) # "" /\ quotes = <<>> ->
                "Prices array cannot be empty"
          [] OTHER ->
                IF ReqMinSources < 1 THEN "Minimum sources must be at least 1"
                ELSE IF Len(quotes) < ReqMinSources THEN "Insufficient sources"
                ELSE IF \E i \in 1..Len(quotes) : quotes[i].symbol # TheCall.symbol
                  THEN "All prices must be for symbol"
                ELSE IF \E i \in 1..Len(quotes) :
                          \/ quotes[i].price.k # "finite"
                          \/ quotes[i].price.v <= 0
                  THEN "Found invalid price values"
                ELSE ""

\* C19: aggregate validates before it filters.  When some check fails, it
\* throws the error of the first failing check in the order: empty symbol,
\* empty quotes, minSources < 1, fewer quotes than minSources, a quote of
\* another symbol, a quote whose price is not finite or not positive; it
\* returns no consensus and writes none to the cache.  Quotes outside the
\* window are checked like the others.  When no check fails, the error, if
\* any, is not a validation error.
C19_ValidationOrder ==
    Ran =>
        IF FirstViolation # ""
          THEN /\ TheOutcome.error = FirstViolation
               /\ TheOutcome.result = <<>>
               /\ lastAggregated = EmptyMap /\ lastNormalized = EmptyMap
               /\ heap = <<>>
          ELSE TheOutcome.error \in
                  {"", "Insufficient recent sources"} \cup StrategyErrors

\* two recent valid quotes would have been enough, but the third quote, too
\* old to be used, has a price that is not a number
C19_Witness ==
    /\ Ran
    /\ TheCall.prices = <<Recent100, Recent104, NaNOutside>>
    /\ ReqMinSources = 2
    /\ TheOutcome.error = "Found invalid price values"
    /\ TheOutcome.result = <<>>

-----------------------------------------------------------------------------
(* Properties of normalize as a function of the raw record *)

Normalized == normOutcome # <<>>
TheRaw == normCall[1]
TheNormOutcome == normOutcome[1]

\* some registered normalizer recognises the source of the record
Recognized(rawPrice) ==
    /\ SourceIsString(rawPrice)
    /\ \E i \in 1..Len(normalizers) :
          canNormalize(normalizers[i].class, rawPrice)

\* a field constraint is violated: null record, missing or non-string symbol
\* or source, missing or invalid price or timestamp
FieldViolation(rawPrice) ==
    \/ validateRawPrice(rawPrice) # ""
    \/ ~ValidDate(rawPrice.timestamp)

\* C20: normalize, for every raw record, either returns a canonical quote or
\* fails with a typed normalization error and with no other kind of error:
\* a validation error only for a record that violates a field constraint
\* (and for every null record and every record whose source is missing or
\* not a string), a no-normalizer error only for a record whose source no
\* normalizer recognises.
C20_TypedErrors ==
    Normalized =>
        /\ TheNormOutcome.kind \in
              {"", "ValidationException", "NormalizationException"}
        /\ TheNormOutcome.kind = "" => Len(TheNormOutcome.value) = 1
        /\ TheNormOutcome.kind = "ValidationException" => FieldViolation(TheRaw)
        /\ TheNormOutcome.kind = "NormalizationException" => ~Recognized(TheRaw)
        /\ (TheRaw.isNull \/ typeof(TheRaw.source) # "string")
              => TheNormOutcome.kind = "ValidationException"

-----------------------------------------------------------------------------
(* Properties of batch normalization *)

BatchDone == batchOutcome # <<>>
TheBatch == batchCall[1]
TheBatchOutcome == batchOutcome[1]

\* normalize accepts the record
Accepts(rawPrice) == normalize(rawPrice).kind = ""
Rejects(rawPrice) == ~Accepts(rawPrice)

\* the canonical quotes of the records normalize accepts, in input order
AcceptedQuotes(rawPrices) ==
    LET accepted == SelectSeq(rawPrices, Accepts)
    IN  [i \in 1..Len(accepted) |-> normalize(accepted[i]).value[1]]

OfSource(quotes, source) == SelectSeq(quotes, LAMBDA q : q.source = source)

\* C21: for every input list, null, malformed and unrecognised records
\* included, normalizeMany, normalizeManyWithErrors and normalizeBySource do
\* not raise; they return the canonical quotes of exactly the records that
\* normalize accepts, in input order; the failures of normalizeManyWithErrors
\* are the rejected records in input order, each with its raw record, a
\* message and the emission time.
C21_BatchRecovers ==
    BatchDone =>
        LET rawPrices == TheBatch.rawPrices
            quotes == AcceptedQuotes(rawPrices)
            rejected == SelectSeq(rawPrices, Rejects)
            value == TheBatchOutcome.value[1]
        IN  /\ TheBatchOutcome.raised = ""
            /\ TheBatch.op = "normalizeMany" => value = quotes
            /\ TheBatch.op = "normalizeManyWithErrors" =>
                  /\ value.successful = quotes
                  /\ Len(value.successful) + Len(value.failed) = Len(rawPrices)
                  /\ Len(value.failed) = Len(rejected)
                  /\ \A i \in 1..Len(value.failed) :
                        /\ value.failed[i].rawPrice = rejected[i]
                        /\ value.failed[i].error # ""
                        /\ value.failed[i].timestamp = toISOString(clock)
            /\ TheBatch.op = "normalizeBySource" =>
                  /\ DOMAIN value = {quotes[i].source : i \in 1..Len(quotes)}
                  /\ \A source \in DOMAIN value :
                        value[source] = OfSource(quotes, source)

-----------------------------------------------------------------------------
(* Properties of the canonical quote *)

Emitted == Normalized /\ TheNormOutcome.kind = ""
TheQuote == TheNormOutcome.value[1]

IsFiniteNumber(v) == v.t = "number" /\ v.k = "finite"
NonEmptyTrimmed(v) == v.t = "string" /\ trim(v.s) # <<>>

\* C22: normalize emits a canonical quote only for a raw record whose price
\* is finite and non-negative, whose timestamp is a numeric, positive, valid
\* epoch, and whose symbol and source are non-empty after trimming; every
\* emitted quote has a non-empty symbol, a price >= 0, and wasTransformed
\* true exactly when transformations is non-empty.
C22_EmitsOnlyValid ==
    Emitted =>
        /\ ~TheRaw.isNull
        /\ IsFiniteNumber(TheRaw.price) /\ TheRaw.price.n >= 0
        /\ IsFiniteNumber(TheRaw.timestamp) /\ TheRaw.timestamp.n > 0
        /\ NonEmptyTrimmed(TheRaw.symbol)
        /\ NonEmptyTrimmed(TheRaw.source)
        /\ TheQuote.symbol # <<>>
        /\ TheQuote.price >= 0
        /\ TheQuote.metadata.wasTransformed
              <=> TheQuote.metadata.transformations # <<>>

-----------------------------------------------------------------------------
(* Properties of the rewriting rules *)

UnitDone == unitOutcome # <<>>
TheUnit == unitCall[1]
TheUnitOutcome == unitOutcome[1]

\* C23: for every normalizer and every raw symbol s,
\* normalizeSymbol(normalizeSymbol(s)) = normalizeSymbol(s), and rounding an
\* already rounded price changes nothing.
C23_Idempotent ==
    (UnitDone /\ TheUnit.method \in {"normalizeSymbol", "normalizePrice"})
        => TheUnitOutcome.twice = TheUnitOutcome.once

-----------------------------------------------------------------------------
(* Properties of the registry *)

Found == UnitDone /\ TheUnit.method = "findNormalizer" /\ TheUnitOutcome.raised = ""

\* the places of the registry whose normalizer recognises the record
Matching(rawPrice) ==
    {i \in 1..Len(normalizers) : canNormalize(normalizers[i].class, rawPrice)}

\* the lookup returns the earliest registered normalizer that recognises the
\* source, and null when there is none
FirstMatch ==
    Found =>
        LET hits == Matching(TheUnit.arg)
        IN  /\ hits = {} <=> TheUnitOutcome.found = <<>>
            /\ hits # {} =>
                  \E i \in hits :
                      /\ \A j \in hits : i <= j
                      /\ TheUnitOutcome.found = <<normalizers[i].class>>

\* a record with the same source gets the same normalizer
OnlySource ==
    Found =>
        \A other \in FindInputs :
            other.source = TheUnit.arg.source
                => findNormalizer(other) = TheUnitOutcome.found

DistinctNames ==
    \A i, j \in 1..Len(normalizers) :
        normalizers[i].name = normalizers[j].name => i = j

\* a registration either appends a normalizer under a new name or replaces
\* the entry of its name, in place, adding none
ReplacesOrAppends ==
    lastOp' = "registerNormalizer" =>
        \/ /\ Len(normalizers') = Len(normalizers) + 1
           /\ SubSeq(normalizers', 1, Len(normalizers)) = normalizers
           /\ \A i \in 1..Len(normalizers) :
                 normalizers[i].name # normalizers'[Len(normalizers')].name
        \/ /\ NamesOf(normalizers') = NamesOf(normalizers)
           /\ Cardinality({i \in 1..Len(normalizers) :
                              normalizers'[i] # normalizers[i]}) <= 1

\* C24: the registry starts as AlphaVantage, Finnhub, YahooFinance, Mock; the
\* dispatcher picks the first normalizer in registration order that
\* recognises the source, the choice depends only on the source field, and
\* registering a normalizer under an already registered name replaces that
\* entry without adding one.
C24_FirstMatchInOrder ==
    /\ SubSeq(NamesOf(normalizers), 1, 4) = Normalizers
    /\ [](FirstMatch /\ OnlySource /\ DistinctNames)
    /\ [][ReplacesOrAppends]_vars

MockFinnhub == JsString(<<"m","o","c","k","-","f","i","n","n","h","u","b">>)

\* a source that two normalizers recognise goes to the one registered first,
\* in a registry where an entry has been replaced and one added
C24_Witness ==
    /\ Found
    /\ TheUnit.arg.source = MockFinnhub
    /\ Cardinality(Matching(TheUnit.arg)) >= 2
    /\ TheUnitOutcome.found = <<"FinnhubNormalizer">>
    /\ Len(normalizers) = 5
    /\ \E i \in 1..4 : normalizers[i].class # normalizers[i].name

-----------------------------------------------------------------------------
(* Properties of the weighted strategies *)

ReqTrim == OrDefault(TheCall.options.trimPercentage, 20)

\* the call gets as far as its strategy
StrategyRuns ==
    /\ ValidationPasses
    /\ Len(Survivors) >= ReqMinSources
    /\ ReqMethod \in KnownMethods
    /\ ReqMethod = "trimmed-mean" => TrimPercentageOk(ReqTrim)

\* the quotes the strategy averages
Averaged ==
    IF ReqMethod = "trimmed-mean" /\ Len(Survivors) >= 3
    THEN LET k == (Len(Survivors) * ReqTrim) \div 100
         IN  SubSeq(SortByPrice(Survivors), k + 1, Len(Survivors) - k)
    ELSE Survivors

\* own weight, else the caller's override for the source, else the weight of
\* the registry, else 1.0 (in tenths)
EffectiveWeight(q) ==
    LET overrides == TheCall.options.customWeights
    IN  IF q.weight # <<>> THEN q.weight[1]
        ELSE IF overrides # <<>> /\ q.source \in DOMAIN overrides[1]
        THEN overrides[1][q.source]
        ELSE IF q.source \in DOMAIN SOURCE_WEIGHTS THEN SOURCE_WEIGHTS[q.source]
        ELSE 10

TotalWeight == SumSeq([i \in 1..Len(Averaged) |-> EffectiveWeight(Averaged[i])])
WeightedTotal ==
    SumSeq([i \in 1..Len(Averaged) |->
               Averaged[i].price.v * EffectiveWeight(Averaged[i])])

\* C25: in weighted-mean and trimmed-mean aggregation each averaged quote
\* counts with its own weight if present, else the caller's override for its
\* source, else the registry weight of its source, else 1.0; the consensus is
\* sum(price * weight) / sum(weight) over the averaged quotes, and the call
\* fails with 'Total weight cannot be zero' when that denominator is zero.
C25_EffectiveWeights ==
    (Ran /\ StrategyRuns /\ ReqMethod \in {"weighted-average", "trimmed-mean"}) =>
        IF TotalWeight = 0
        THEN TheOutcome.error = "Total weight cannot be zero"
        ELSE /\ TheOutcome.error = ""
             /\ TheResult.price.num * TotalWeight
                   = WeightedTotal * TheResult.price.den

\* a weighted mean over a quote with its own weight, a quote of an overridden
\* source and a quote of a source the registry does not list
C25_Witness ==
    /\ Ran
    /\ TheOutcome.error = ""
    /\ ReqMethod = "weighted-average"
    /\ TheCall.options.customWeights = <<[AlphaVantage |-> 30]>>
    /\ TheCall.prices =
          <<Quote("AAPL", Fin(100), T0 - 1000, "AlphaVantage"),
            Quote("AAPL", Fin(90), T0 - 3000, "Unlisted"),
            Weighted(Quote("AAPL", Fin(110), T0, "Reuters"), 30)>>
    /\ TheResult.price = [num |-> 100 * 30 + 90 * 10 + 110 * 30, den |-> 70]

-----------------------------------------------------------------------------
(* Properties of the trimmed mean *)

Trimmed == UnitDone /\ TheUnit.method = "trimmed-mean"
TrimOf == TheUnit.receiver
PricesOf == TheUnit.arg.prices

\* the place of quote i in the ascending order that keeps ties as given
RankOf(prices, i) ==
    Cardinality({j \in 1..Len(prices) :
                    \/ prices[j].price.v < prices[i].price.v
                    \/ prices[j].price.v = prices[i].price.v /\ j < i})

\* the quotes left: all of them below three, otherwise those that are not
\* among the first or the last floor(n t)
Kept(prices, t) ==
    LET n == Len(prices)
        k == (n * t) \div 100
    IN  IF n < 3 THEN 1..n
        ELSE {i \in 1..n : k <= RankOf(prices, i) /\ RankOf(prices, i) < n - k}

\* weight of a quote given to a strategy with a weights argument
WeightIn(q, weights) ==
    IF q.weight # <<>> THEN q.weight[1]
    ELSE IF q.source \in DOMAIN weights THEN weights[q.source]
    ELSE 10

\* sum of f over the places of prices that are in S
SumOver(prices, S, f(_)) ==
    SumSeq([i \in 1..Len(prices) |-> IF i \in S THEN f(prices[i]) ELSE 0])

\* the outcome is the weighted mean of the quotes at the places S
IsWeightedMeanOf(outcome, prices, S, weights) ==
    LET den == SumOver(prices, S, LAMBDA q : WeightIn(q, weights))
        num == SumOver(prices, S, LAMBDA q : q.price.v * WeightIn(q, weights))
    IN  IF den = 0 THEN outcome.error = "Total weight cannot be zero"
        ELSE /\ outcome.error = ""
             /\ outcome.value[1].num * den = num * outcome.value[1].den

\* C26: the trimmed mean with fraction t of n >= 1 quotes is the weighted
\* mean of all of them for n < 3, and for n >= 3 the weighted mean of the
\* quotes left after sorting by price ascending (stable on ties) and
\* dropping the first and the last floor(n t); for t in [0, 0.5) some quote
\* is left; with t = 0 it is the weighted mean of the same input.
C26_TrimmedMean ==
    (Trimmed /\ TrimPercentageOk(TrimOf) /\ Len(PricesOf) >= 1) =>
        LET weights == TheUnit.arg.weights
            all == 1..Len(PricesOf)
        IN  /\ Kept(PricesOf, TrimOf) # {}
            /\ IsWeightedMeanOf(TheUnitOutcome, PricesOf,
                                Kept(PricesOf, TrimOf), weights)
            /\ TrimOf = 0 =>
                  /\ IsWeightedMeanOf(TheUnitOutcome, PricesOf, all, weights)
                  /\ IsWeightedMeanOf(WeightedAverageAggregator(PricesOf, weights),
                                      PricesOf, all, weights)

\* five quotes at t = 0.2, the outlier first in the list: the cheapest quote
\* given first and the outlier are dropped, the tie is kept in input order
C26_Witness ==
    /\ Trimmed
    /\ TrimOf = 20
    /\ TheUnit.arg.weights = EmptyMap
    /\ PricesOf =
          <<Quote("AAPL", Fin(500), T0, "Unlisted"),
            Weighted(Quote("AAPL", Fin(100), T0, "Finnhub"), 30),
            Quote("AAPL", Fin(100), T0, "AlphaVantage"),
            Quote("AAPL", Fin(104), T0, "Reuters"),
            Quote("AAPL", Fin(100), T0, "AlphaVantage")>>
    /\ Kept(PricesOf, TrimOf) = {3, 4, 5}
    /\ TheUnitOutcome = Returns([num |-> 3040, den |-> 30])

\* the fraction, in percent, is outside [0, 0.5)
OutsideRange(t) == t < 0 \/ t >= 50

Constructed == UnitDone /\ TheUnit.method = "new TrimmedMeanAggregator"

\* C27: constructing a trimmed-mean strategy with t < 0 or t >= 0.5 fails
\* (and with t in [0, 0.5) succeeds); aggregate called with method
\* trimmed-mean and such a trimPercentage fails, with the constructor's error
\* when the call gets as far as its strategy, returns no consensus and leaves
\* the cache empty.
C27_TrimRejected ==
    /\ Constructed =>
          (TheUnitOutcome.error # "" <=> OutsideRange(TheUnit.receiver))
    /\ (Ran /\ ReqMethod = "trimmed-mean" /\ OutsideRange(ReqTrim)) =>
          /\ TheOutcome.error # ""
          /\ TheOutcome.result = <<>>
          /\ lastAggregated = EmptyMap /\ lastNormalized = EmptyMap
          /\ heap = <<>>
          /\ aggregationCount = 0
          /\ (ValidationPasses /\ Len(Survivors) >= ReqMinSources) =>
                TheOutcome.error = "Trim percentage must be between 0 and 0.5"

\* one half given to the constructor, and one half given to aggregate with
\* enough recent quotes
C27_Witness ==
    /\ Constructed /\ TheUnit.receiver = 50 /\ TheUnitOutcome.error # ""
    /\ Ran
    /\ TheCall.options.trimPercentage = <<50>>
    /\ Len(Survivors) = 2
    /\ TheOutcome.error = "Trim percentage must be between 0 and 0.5"
    /\ aggregationErrors = 1

-----------------------------------------------------------------------------
(* Properties of the strategies under one outlier *)

OutlierAdded == UnitDone /\ TheUnit.method = "aggregate"
BaseOf == TheUnit.arg.prices
BasePrices == {BaseOf[i].price.v : i \in 1..Len(BaseOf)}
OutlierPrice == TheUnit.arg.outlier.price.v
Extreme ==
    \/ \A p \in BasePrices : OutlierPrice > p
    \/ \A p \in BasePrices : OutlierPrice < p
Before == TheUnitOutcome.before
After == TheUnitOutcome.after
SameValue(a, b) ==
    /\ a.error = "" /\ b.error = ""
    /\ a.value[1].num * b.value[1].den = b.value[1].num * a.value[1].den

\* the same outlier ten times as far above, or half as far from zero
Farther(q) ==
    [q EXCEPT !.price = Fin(IF q.price.v > 1000 THEN q.price.v * 10
                            ELSE q.price.v \div 2)]

\* C28 as stated: adding one extreme outlier to n >= 5 quotes leaves the
\* median where it was when n is odd, and leaves the trimmed mean with
\* t = 0.2 where it was.
C28_NoShift ==
    (OutlierAdded /\ Extreme /\ Len(BaseOf) >= 5
       /\ (TheUnit.receiver = "median" => Len(BaseOf) % 2 = 1)) =>
        SameValue(Before, After)

\* C28: adding one extreme outlier to n >= 5 quotes gives a median and a
\* trimmed mean (t = 0.2) that do not depend on how extreme the outlier is
\* and that lie between the smallest and the largest price of the set; the
\* value stays where it was when all prices of the set are equal.
C28_OutlierBounded ==
    (OutlierAdded /\ Extreme /\ Len(BaseOf) >= 5) =>
        LET arg == TheUnit.arg
            moved == StrategyOf(TheUnit.receiver,
                                InsertAt(arg.prices, arg.at, Farther(arg.outlier)),
                                arg.weights)
        IN  /\ Before.error = "" /\ After.error = ""
            /\ SameValue(After, moved)
            /\ \A p \in BasePrices :
                  /\ (\A r \in BasePrices : p <= r) =>
                         p * After.value[1].den <= After.value[1].num
                  /\ (\A r \in BasePrices : p >= r) =>
                         After.value[1].num <= p * After.value[1].den
            /\ Cardinality(BasePrices) = 1 => SameValue(Before, After)

\* 100, 104, 104, 110, 110 and an outlier of 100000 among them: the median
\* goes from 104 to 107 and the trimmed mean from 106 to 107
C28_Witness ==
    /\ OutlierAdded
    /\ Extreme
    /\ [i \in 1..Len(BaseOf) |-> BaseOf[i].price.v] = <<100, 104, 104, 110, 110>>
    /\ OutlierPrice = 100000
    /\ TheUnit.arg.at = 2
    /\ TheUnit.arg.weights = EmptyMap
    /\ ~SameValue(Before, After)
    /\ After.value[1].num = 107 * After.value[1].den

-----------------------------------------------------------------------------
(* Properties of the median *)

MedianRan == UnitDone /\ TheUnit.method = "median"

\* the k-th smallest price of the list
OrderStatistic(prices, k) ==
    CHOOSE p \in {prices[i].price.v : i \in 1..Len(prices)} :
        /\ Cardinality({i \in 1..Len(prices) : prices[i].price.v < p}) < k
        /\ Cardinality({i \in 1..Len(prices) : prices[i].price.v <= p}) >= k

\* the middle price, or the mean of the two central prices
CentralValue(prices) ==
    LET n == Len(prices)
    IN  IF n % 2 = 1
          THEN [num |-> OrderStatistic(prices, (n + 1) \div 2), den |-> 1]
          ELSE [num |-> OrderStatistic(prices, n \div 2)
                         + OrderStatistic(prices, n \div 2 + 1),
                den |-> 2]

Reordered(prices, f) == [i \in 1..Len(prices) |-> prices[f[i]]]

\* C29: for every non-empty list of quotes, every reordering of it and
\* every weight map, the median strategy returns the same value: the middle
\* price for an odd count, the mean of the two central prices for an even
\* count.
C29_MedianOfAnyOrder ==
    (MedianRan /\ Len(TheUnit.arg.prices) >= 1) =>
        LET prices == TheUnit.arg.prices
        IN  /\ TheUnitOutcome = Returns(CentralValue(prices))
            /\ \A f \in Permutations(1..Len(prices)), weights \in MedianWeights :
                  MedianAggregator(Reordered(prices, f), weights) = TheUnitOutcome

\* 500, 100, 104, 100 with a weight map: the median is (100 + 104) / 2
C29_Witness ==
    /\ MedianRan
    /\ [i \in 1..Len(TheUnit.arg.prices) |-> TheUnit.arg.prices[i].price.v]
          = <<500, 100, 104, 100>>
    /\ TheUnit.arg.weights # EmptyMap
    /\ TheUnitOutcome = Returns([num |-> 204, den |-> 2])

-----------------------------------------------------------------------------
(* Properties of the confidence score *)

Scored == UnitDone /\ TheUnit.method = "calculateConfidence"

\* min(40, 10 + 3 count) + max(0, 30 - 3 spread) + max(0, 30 - 0.3 stdDev),
\* in hundredths, each score rounded up to the hundredth
ScoreOf(metrics, count) ==
    LET sourceScore == IF count >= 10 THEN 4000 ELSE 1000 + 300 * count
        spreadLoss == (metrics.spread.num * 300) \div metrics.spread.den
        stdDevLoss == (metrics.standardDeviation * 3) \div 10
        spreadScore == IF spreadLoss >= 3000 THEN 0 ELSE 3000 - spreadLoss
        stdDevScore == IF stdDevLoss >= 3000 THEN 0 ELSE 3000 - stdDevLoss
    IN  sourceScore + spreadScore + stdDevScore

-----------------------------------------------------------------------------
(* Properties of the update cycle *)

CallNames(c) == [k \in 1..Len(c.calls) |-> c.calls[k].fn]
CycleOrder == <<"fetchPrice", "generateCommit", "publishToOracle">>
Committed(c) == "generateCommit" \in {c.calls[k].fn : k \in 1..Len(c.calls)}
PublishInvoked(c) ==
    "publishToOracle" \in {c.calls[k].fn : k \in 1..Len(c.calls)}
DigestOf(priceData) ==
    [poseidon |-> <<[bigint |-> priceData.price.v],
                    [bigint |-> priceData.timestamp.v],
                    assetIdToInt(priceData.assetId)>>]

\* C31: in every cycle the collaborators are called in the order fetch,
\* commitment, publish; the commitment is computed only after the fetch
\* resolved and from the price, timestamp and asset id it resolved with;
\* publish is invoked only after both succeeded and with that commitment
\* and that data; a cycle whose fetch or commitment failed publishes
\* nothing; a cycle returns only when the publisher resolved with
\* success = true, and returns the data and commitment of that cycle.
C31_FetchCommitPublish ==
    \A i \in 1..Len(updates) :
        LET c == updates[i]
        IN  /\ CallNames(c) = SubSeq(CycleOrder, 1, Len(c.calls))
            /\ Committed(c) =>
                  /\ c.priceData # <<>>
                  /\ c.calls[2].args = <<c.priceData[1].price,
                                         c.priceData[1].timestamp,
                                         c.priceData[1].assetId>>
            /\ c.commit # <<>> =>
                  /\ Committed(c)
                  /\ isFinite(c.priceData[1].price)
                  /\ c.commit[1] = DigestOf(c.priceData[1])
            /\ PublishInvoked(c) =>
                  /\ c.commit # <<>>
                  /\ c.calls[3].args[1].commit = c.commit[1]
                  /\ c.calls[3].args[1].assetId = c.priceData[1].assetId
                  /\ c.calls[3].args[1].price.bigint = c.priceData[1].price.v
                  /\ c.calls[3].args[1].timestamp.bigint
                        = c.priceData[1].timestamp.v
            /\ (c.step = "thrown" /\ c.commit = <<>>) => ~PublishInvoked(c)
            /\ c.published # <<>> => PublishInvoked(c)
            /\ c.step = "returned" <=> c.returned # <<>>
            /\ c.returned # <<>> =>
                  /\ c.published # <<>>
                  /\ c.published[1].success
                  /\ c.returned[1].txHash = c.published[1].txHash
                  /\ c.returned[1].commit = c.commit[1]
                  /\ c.returned[1].price = c.priceData[1].price
                  /\ c.returned[1].assetId = c.priceData[1].assetId

\* two overlapping cycles on different assets: the first published its own
\* commitment and returned, the second fetched NaN, failed at the
\* commitment and published nothing
C31_Witness ==
    /\ Len(updates) = 2
    /\ updates[1].step = "returned"
    /\ updates[1].priceData[1].assetId = <<84, 83, 76, 65>>
    /\ updates[1].calls[3].args[1].commit = DigestOf(updates[1].priceData[1])
    /\ updates[2].step = "thrown"
    /\ updates[2].priceData # <<>>
    /\ updates[2].priceData[1].assetId = <<65, 65, 80, 76>>
    /\ updates[2].priceData[1].price = NaN
    /\ updates[2].thrown = <<"RangeError">>
    /\ ~PublishInvoked(updates[2])

-----------------------------------------------------------------------------
(* Properties of fetchPrice *)

\* every provider call made so far that has settled, in order
ProviderLog ==
    fpLog \o (IF fpStep \in {"alphavantage", "finnhub"}
                THEN Tagged(fpStep, rLog["PriceFetcher"]) ELSE <<>>)
CallsTo(provider) ==
    {k \in 1..Len(ProviderLog) : ProviderLog[k].provider = provider}
Budget == maxRetries["PriceFetcher"] + 1
FinnhubQueried == fpStep = "finnhub" \/ CallsTo("finnhub") # {}
FetchPriceOver == fpStep \in {"returned", "thrown"}

\* C32: fetchPrice queries Finnhub only after the AlphaVantage fetch failed
\* on each of the maxRetries + 1 attempts of its retry; it returns the
\* first successful result, and no provider is queried after a success or
\* after fetchPrice ended; it fails only when both providers failed on
\* every attempt of their retries.
C32_FallbackInOrder ==
    /\ [](/\ FinnhubQueried =>
                /\ CallsTo("alphavantage") = 1..Budget
                /\ \A k \in 1..Budget : ~ProviderLog[k].ok
          /\ Cardinality(CallsTo("alphavantage")) <= Budget
          /\ Cardinality(CallsTo("finnhub")) <= Budget
          /\ \A k \in 1..Len(ProviderLog) :
                ProviderLog[k].ok =>
                    /\ k = Len(ProviderLog)
                    /\ rPc["PriceFetcher"] = "returned"
          /\ fpStep = "returned" =>
                /\ ProviderLog # <<>>
                /\ ProviderLog[Len(ProviderLog)].ok
                /\ fpResult = <<ProviderLog[Len(ProviderLog)].val>>
          /\ fpStep = "thrown" =>
                /\ Len(ProviderLog) = 2 * Budget
                /\ \A k \in 1..Len(ProviderLog) : ~ProviderLog[k].ok
                /\ Cardinality(CallsTo("finnhub")) = Budget)
    /\ [][FetchPriceOver => UNCHANGED <<rVars, fpVars>>]_vars

\* AlphaVantage failed four times, Finnhub failed once and then answered
C32_Witness ==
    /\ fpStep = "returned"
    /\ Len(fpLog) = 6
    /\ CallsTo("alphavantage") = 1..4
    /\ ~fpLog[5].ok
    /\ fpLog[6].ok
    /\ fpResult = <<"v2">>

-----------------------------------------------------------------------------
(* Properties of repeated aggregation *)

\* what aggregate gives for the last call on a service just constructed
OnFreshService ==
    aggregate(EmptyStore, aggCall[1].symbol, aggCall[1].prices,
              aggCall[1].options, clock).out

\* C33: what aggregate returns or throws depends only on its arguments and
\* the current time: it is what a newly constructed service gives for the
\* same call at the same time, whatever calls came before; the Map of
\* strategies stays as the constructor filled it, so a call with another
\* trim fraction leaves later calls with the default fraction unaffected.
C33_Stateless ==
    /\ aggregators = NewAggregators
    /\ lastOp = "aggregate" =>
          /\ aggOutcome[1].error = OnFreshService.error
          /\ aggOutcome[1].result = OnFreshService.result
          /\ aggOutcome[1].recentPrices = OnFreshService.recentPrices

\* trimmed mean with fraction 0.4 (110), then with the default fraction:
\* (104 + 110 + 120) / 3
C33_Witness ==
    /\ lastOp = "aggregate"
    /\ Len(heap) = 4
    /\ heap[1].method = "trimmed-mean"
    /\ heap[1].price.num = 110 * heap[1].price.den
    /\ aggCall[1].options.method = <<"trimmed-mean">>
    /\ aggCall[1].options.trimPercentage = <<>>
    /\ aggOutcome[1].result # <<>>
    /\ aggOutcome[1].result[1].price.num * 3
          = 334 * aggOutcome[1].result[1].price.den

-----------------------------------------------------------------------------
(* Properties of the arrays a call writes *)

OnArrays ==
    /\ unitCall # <<>>
    /\ unitCall[1].method \in {"strategy", "aggregate", "aggregateMultiple"}

\* the quotes of a list that are inside the default time window
InsideWindow(prices) == SelectSeq(prices, LAMBDA p : p.timestamp >= clock - 30000)

\* the array the caller handed over as the i-th list is as it was
CallerListKept(i) == unitOutcome[1].arrays[i] = unitCall[1].arg.prices[i]

\* the list cached for the i-th symbol is the survivors of the i-th list, in
\* the order of that list
CachedInInputOrder(i) ==
    LET symbol == unitCall[1].arg.symbols[i]
    IN  symbol \in DOMAIN unitOutcome[1].cached =>
            /\ unitOutcome[1].arrays[unitOutcome[1].cached[symbol]]
                  = InsideWindow(unitCall[1].arg.prices[i])
            /\ symbol \in DOMAIN unitOutcome[1].stored
            /\ unitOutcome[1].stored[symbol]
                  = InsideWindow(unitCall[1].arg.prices[i])

\* C34: a strategy, aggregate and aggregateMultiple leave every list of the
\* caller with the same quotes in the same order, and the list the cache holds
\* as lastNormalized for a symbol is the quotes of the caller's list that are
\* inside the time window, in the caller's order.
C34_SortingIsLocal ==
    OnArrays =>
        /\ \A i \in DOMAIN unitCall[1].arg.prices : CallerListKept(i)
        /\ \A i \in DOMAIN unitCall[1].arg.symbols : CachedInInputOrder(i)
        /\ DOMAIN unitOutcome[1].stored = DOMAIN unitOutcome[1].cached

\* aggregate with the trimmed mean on a list that is not in price order and
\* holds a quote outside the window: a sorted array exists, the cached list
\* is not it
C34_Witness ==
    /\ OnArrays
    /\ unitCall[1].method = "aggregate"
    /\ "AAPL" \in DOMAIN unitOutcome[1].cached
    /\ LET prices == unitCall[1].arg.prices[1]
           arrays == unitOutcome[1].arrays
       IN  /\ InsideWindow(prices) # prices
           /\ Len(InsideWindow(prices)) >= 3
           /\ SortByPrice(InsideWindow(prices)) # InsideWindow(prices)
           /\ \E ref \in DOMAIN arrays :
                 arrays[ref] = SortByPrice(InsideWindow(prices))
           /\ arrays[unitOutcome[1].cached["AAPL"]] = InsideWindow(prices)

-----------------------------------------------------------------------------
(* Properties of normalization followed by aggregation *)

PipelineRan == unitCall # <<>> /\ unitCall[1].method = "pipeline"

\* every raw quote was normalized to AAPL, with a positive price and a
\* timestamp inside the default window
PipelineInput ==
    LET rawPrices == unitCall[1].arg.rawPrices
        normalized == unitOutcome[1].normalized
    IN  /\ Len(normalized) = Len(rawPrices)
        /\ Len(normalized) >= OrDefault(unitCall[1].arg.options.minSources, 3)
        /\ \A i \in DOMAIN normalized :
              /\ normalized[i].symbol = "AAPL"
              /\ normalized[i].price.v > 0
              /\ rawPrices[i].timestamp.n >= clock - 30000
              /\ normalized[i].originalTimestamp = rawPrices[i].timestamp.n

\* C35: when at least minSources raw quotes of one canonical symbol, with
\* positive prices and timestamps inside the window, are normalized and the
\* records are passed to aggregate for that symbol, the aggregation succeeds
\* and uses all of them.
C35_PipelineComposes ==
    (PipelineRan /\ PipelineInput) =>
        /\ unitOutcome[1].out.error = ""
        /\ unitOutcome[1].out.result[1].metrics.sourceCount
              = Len(unitOutcome[1].normalized)

\* what the code does with such input: aggregate throws, no quote is recent
C35_Rejected ==
    (PipelineRan /\ PipelineInput) =>
        unitOutcome[1].out.error = "Insufficient recent sources"

C35_Witness ==
    /\ PipelineRan /\ PipelineInput
    /\ unitCall[1].arg.rawPrices[1].symbol = AaplUs

-----------------------------------------------------------------------------
(* Properties of the consensus price and the range of the quotes used *)

\* the rational r is at least / at most the integer x
AtLeast(r, x) == IF r.den > 0 THEN r.num >= x * r.den ELSE r.num <= x * r.den
AtMost(r, x) == IF r.den > 0 THEN r.num <= x * r.den ELSE r.num >= x * r.den

ConsensusEmitted == aggOutcome # <<>> /\ aggOutcome[1].error = ""

UsedPrices ==
    {aggOutcome[1].recentPrices[i].price.v :
        i \in DOMAIN aggOutcome[1].recentPrices}

InRange ==
    /\ AtLeast(aggOutcome[1].result[1].price, MinOf(UsedPrices))
    /\ AtMost(aggOutcome[1].result[1].price, MaxOf(UsedPrices))

\* C36: every consensus price aggregate emits lies between the minimum and
\* the maximum price of the quotes used, whatever the method and the weights
\* (registry weights, caller overrides, per-quote weights) of the call.
C36_ConsensusInRange == ConsensusEmitted => InRange

\* the weight each quote used was given
UsedWeights ==
    LET used == aggOutcome[1].recentPrices
    IN  {weightOf(used[i], prepareWeights(used, aggCall[1].options.customWeights)) :
            i \in DOMAIN used}

\* with no negative weight among the quotes used the price is in the range
C36_InRangeWithoutNegativeWeights ==
    (ConsensusEmitted /\ \A w \in UsedWeights : w >= 0) => InRange

-----------------------------------------------------------------------------
(* Properties of PriceFetcherService *)

ReturnedFetches == {i \in DOMAIN fetches : fetches[i].state = "returned"}

\* the result of the fetch that started last among those that succeeded
\* ([] before any success)
LatestStarted ==
    IF ReturnedFetches = {} THEN <<>>
    ELSE fetches[CHOOSE i \in ReturnedFetches : \A j \in ReturnedFetches : j <= i].value[1]

\* a step in which some call of fetchRawPrices rejects
SomeFetchRejects ==
    \E i \in DOMAIN fetches :
        fetches[i].state = "pending" /\ fetches'[i].state = "rejected"

\* C37: after any sequence of possibly overlapping fetchRawPrices calls,
\* getRawPrices returns the whole flattened result of the most recently
\* started fetch that succeeded, and a fetch in which a provider fails rejects
\* and leaves the stored list unchanged.
C37_LatestStartedFetch ==
    /\ [](lastOp = "getRawPrices" => seenRawPrices[1] = LatestStarted)
    /\ [][SomeFetchRejects => UNCHANGED storedRawPrices]_vars

\* what the code keeps: the result of the fetch that returned last
C37_StoredIsSomeResult ==
    \/ storedRawPrices = <<>>
    \/ \E i \in ReturnedFetches : storedRawPrices = fetches[i].value[1]

\* a failing fetch leaves the list alone
C37_RejectKeepsList == [][SomeFetchRejects => UNCHANGED storedRawPrices]_vars

\* two calls overlapped and the one that started first returned last
C37_Overtaken ==
    /\ lastOp = "getRawPrices"
    /\ ReturnedFetches = {1, 2}
    /\ seenRawPrices[1] = fetches[1].value[1]
    /\ fetches[1].value # fetches[2].value

-----------------------------------------------------------------------------
(* Properties of the sockets and timers of DataReceptionService *)

\* the sockets that are connecting or open
LiveSockets == {k \in DOMAIN sockets : sockets[k] \in {"connecting", "open"}}

\* C38: in every reachable state of DataReceptionService at most one
\* WebSocket is connecting or open, at most one reconnection timer is
\* pending, and a pending timer never coexists with a socket that is
\* connecting or open.
C38_OneSocketOrTimer ==
    /\ Cardinality(LiveSockets) <= 1
    /\ Len(reconnTimers) <= 1
    /\ ~(LiveSockets # {} /\ reconnTimers # <<>>)

\* the third socket is connecting after two reconnections
C38_Witness ==
    /\ Len(sockets) = 3
    /\ LiveSockets = {3}
    /\ reconnTimers = <<>>
    /\ \A k \in 1..2 : sockets[k] = "closed"

====
